---------------------------- MODULE Spec2Model ----------------------------
(***************************************************************************)
(* A model of pyshtools' class interface (src/pyshtools/shclasses.py):     *)
(* SHCoeffs (SHRealCoeffs, SHComplexCoeffs), SHGrid and SHWindow.          *)
(*                                                                         *)
(* numpy arrays live in a heap of cells, so that two holders of the same   *)
(* array (an instance built with copy=False and its caller, an accessor    *)
(* that returns a reference) really share storage.  Array elements are     *)
(* numbers of the field GF(Modulus^2) = F[i]: the real numbers the code    *)
(* computes with are mapped homomorphically into F (sqrt(2l+1), sqrt(4 pi) *)
(* and log(base) are elements of F with the right squares), complex        *)
(* numbers into F[i].  Every arithmetic identity of the reals is kept,     *)
(* rounding is not modelled.                                               *)
(***************************************************************************)
EXTENDS Integers, Sequences, FiniteSets, TLC

(* ------------------------------ bounds -------------------------------- *)
\* the largest lmax of an array the caller builds or asks for
MaxLmax == 1
\* the number of set_coeffs calls and of writes to an array by the caller
MaxWrites == 1

(* ------------------------ numbers: F and F[i] ------------------------- *)
\* the prime of the field; -1 is no square in it, so F[i] is a field too
Modulus == 59
\* the image of numpy.sqrt(4.0 * numpy.pi)
SqrtFourPi == 17
\* the image of numpy.log(base)
LogBase == 23

Zero == <<0, 0>>
One == <<1, 0>>
\* inf and nan, the result of a division by zero
NaN == <<Modulus, Modulus>>
Re(x) == <<x[1], 0>>
Real(r) == <<r % Modulus, 0>>

InvTab == [x \in 1..(Modulus - 1) |-> CHOOSE y \in 1..(Modulus - 1) : (x * y) % Modulus = 1]
Inv(x) == InvTab[x]
\* numpy.sqrt(2.0 * l + 1.0)
SqrtTab == [l \in 0..(MaxLmax + 3) |-> CHOOSE r \in 1..(Modulus - 1) : (r * r) % Modulus = (2 * l + 1) % Modulus]
SqrtOdd(l) == SqrtTab[l]
FourPi == (SqrtFourPi * SqrtFourPi) % Modulus

CAdd(a, b) == IF a = NaN \/ b = NaN THEN NaN
              ELSE <<(a[1] + b[1]) % Modulus, (a[2] + b[2]) % Modulus>>
CNeg(a) == IF a = NaN THEN NaN ELSE <<(0 - a[1]) % Modulus, (0 - a[2]) % Modulus>>
CSub(a, b) == CAdd(a, CNeg(b))
CMul(a, b) == IF a = NaN \/ b = NaN THEN NaN
              ELSE <<(a[1] * b[1] - a[2] * b[2]) % Modulus,
                     (a[1] * b[2] + a[2] * b[1]) % Modulus>>
Conj(a) == IF a = NaN THEN NaN ELSE <<a[1], (0 - a[2]) % Modulus>>
Norm2(a) == (a[1] * a[1] + a[2] * a[2]) % Modulus
CDiv(a, b) == IF a = NaN \/ b = NaN \/ b = Zero THEN NaN
              ELSE CMul(CMul(a, Conj(b)), <<Inv(Norm2(b)), 0>>)
\* multiplication and division by a real factor
Scale(a, r) == CMul(a, <<r % Modulus, 0>>)
Unscale(a, r) == CDiv(a, <<r % Modulus, 0>>)
RECURSIVE CPow(_, _)
CPow(a, k) == IF k = 0 THEN One ELSE CMul(a, CPow(a, k - 1))

(* ------------------------------ arrays -------------------------------- *)
\* the index set of an array of shape (2, n, n)
Idx(n) == (0..1) \X (0..(n - 1)) \X (0..(n - 1))
\* the index set of an array of shape (nlat, nlon)
Idx2(nlat, nlon) == (0..(nlat - 1)) \X (0..(nlon - 1))

NoArr == [dtype |-> "none", shape |-> <<>>, dat |-> <<>>]

\* numpy.zeros((2, n, n)) and numpy.zeros((2, n, n), dtype=complex)
zeros(n, dtype) == [dtype |-> dtype, shape |-> <<2, n, n>>, dat |-> [ix \in Idx(n) |-> Zero]]
\* numpy.iscomplexobj
iscomplexobj(arr) == arr.dtype = "complex"

\* the caller's input data: every entry is non-zero, also outside the mask
InputArr(dtype, n) ==
  [dtype |-> dtype, shape |-> <<2, n, n>>,
   dat |-> [ix \in Idx(n) |->
              LET k == 1 + ix[1] + 2 * (ix[2] + n * ix[3])
              IN <<k % Modulus, IF dtype = "complex" THEN (3 * k + 1) % Modulus ELSE 0>>]]
\* the arrays the caller starts with, at the addresses 1..Len(Sources)
Sources == <<InputArr("real", MaxLmax + 1), InputArr("complex", MaxLmax + 1)>>

\* str.lower() on the strings the caller passes
lower(s) == CASE s = "Ortho" -> "ortho"
              [] s = "Real" -> "real"
              [] s = "Power" -> "power"
              [] s = "Per_lm" -> "per_lm"
              [] OTHER -> s

Normalizations == {"4pi", "ortho", "schmidt"}
NormArgs == {"4pi", "schmidt", "Ortho", "bogus"}
CsArgs == {1, -1, 0}
Kinds == {"real", "complex"}
KindArgs == Kinds \cup {"Real", "bogus"}
\* an optional argument: <<>> is None
Opt(S) == {<<>>} \cup {<<x>> : x \in S}
Default(arg, d) == IF arg = <<>> THEN d ELSE arg[1]


(* ------------------------------- state -------------------------------- *)
VARIABLES
  heap,    \* the numpy arrays: address -> array, NoArr for a free cell
  objs,    \* the caller's SHCoeffs variables; "r" is the instance the last call returned
  grids,   \* the caller's SHGrid variables; "r" is the instance the last call returned
  ret,     \* the outcome of the last call
  calls,   \* the backend (_shtools) primitives the last call invoked, in order
  writes,  \* the number of writes so far: set_coeffs calls and writes by the caller
  wins     \* the caller's SHWindow variables

vars == <<heap, objs, grids, ret, calls, writes, wins>>

\* the caller's variables
CoeffVars == {"x", "y"}
GridVars == {"g"}
SlotNames == CoeffVars \cup GridVars \cup {"r"}
\* the cells of the caller's own arrays: the coefficient arrays and one grid array
Caller == 1..(Len(Sources) + 1)
\* one more cell for every variable, the returned value and a temporary
Addr == 1..(Len(Sources) + 1 + Cardinality(SlotNames) + 2)
\* the arrays the caller holds from the start
ext == {a \in Caller : heap[a] # NoArr}

\* the fields of an instance, and three notes on its history: copy is the copy argument it
\* was built with, origin the call of the caller that built it, sets the arguments of the
\* set_coeffs calls made on it
NoObj == [kind |-> "none", normalization |-> "", csphase |-> 0, lmax |-> 0,
          mask |-> {}, coeffs |-> 0, copy |-> FALSE, origin |-> "", sets |-> <<>>]
NoGrid == [kind |-> "none", grid |-> "", sampling |-> 0, nlat |-> 0, nlon |-> 0,
           lmax |-> 0, data |-> 0, copy |-> FALSE]
\* the fields of an SHWindow instance; an optional field (None in the code) is <<>> or <<v>>
WinVars == {"w"}
NoWin == [kind |-> "none", theta |-> 0, theta_degrees |-> TRUE, clat |-> <<>>, clon |-> <<>>,
          coord_degrees |-> TRUE, lwin |-> 0, nwin |-> 0, nwinrot |-> <<>>, dj_matrix |-> <<>>,
          weights |-> <<>>, tapers |-> NoArr, eigenvalues |-> <<>>, orders |-> <<>>,
          coeffs |-> <<>>]
\* out: the variable holding the returned instance, arr: the address of the
\* returned array, val: the returned spectrum
NoRet == [op |-> "", status |-> "", self |-> "", other |-> "", out |-> "", arr |-> 0,
          args |-> <<>>, val |-> <<>>]
Call(op, self, args) == [NoRet EXCEPT !.op = op, !.self = self, !.args = args]
Raise(op, err, self, args) == [Call(op, self, args) EXCEPT !.status = err]

\* the lowest free cell
FreeAddrs(h) == {a \in Addr \ Caller : h[a] = NoArr}
NewAddr(h) == CHOOSE a \in FreeAddrs(h) : \A b \in FreeAddrs(h) : a <= b

\* the arrays the caller and the instances of its variables refer to
Held(o, g) == ext \cup {o[s].coeffs : s \in {t \in DOMAIN o : o[t].kind # "none"}}
                  \cup {g[s].data : s \in {t \in DOMAIN g : g[t].kind # "none"}}
DropObjs(o) == [o EXCEPT !["r"] = NoObj]
DropGrids(g) == [g EXCEPT !["r"] = NoGrid]
\* the heap without the cells that neither a variable nor the returned value refers to
Collect(h, o, g, extra) == [a \in Addr |-> IF a \in Held(o, g) \cup extra THEN h[a] ELSE NoArr]
\* a call starts when the caller is done with the outcome of the previous one
Idle == ret = NoRet

(* --------------------------- SHCoeffs.__init__ ------------------------ *)
\* mask[:, l, :l+1] = True for every l, then mask[1, :, 0] = False
MakeMask(lmax) == {ix \in Idx(lmax + 1) : ix[3] <= ix[2] /\ ~(ix[1] = 1 /\ ix[3] = 0)}

\* coeffs[~mask] = 0.
ZeroOutsideMask(dat, mask) == [ix \in DOMAIN dat |-> IF ix \in mask THEN dat[ix] ELSE Zero]

\* SHRealCoeffs.__init__ and SHComplexCoeffs.__init__: arr is the array passed, at
\* its address when the caller holds it (0 for an array made inside the call).
\* Gives the instance and the heap with its array.
CoeffsInit(kind, h, arr, at, normalization, csphase, copy) ==
  LET lmax == arr.shape[2] - 1
      mask == MakeMask(lmax)
      a == IF copy \/ at = 0 THEN NewAddr(h) ELSE at
      stored == IF copy THEN [arr EXCEPT !.dat = ZeroOutsideMask(arr.dat, mask)] ELSE arr
  IN [obj |-> [kind |-> kind, normalization |-> normalization, csphase |-> csphase,
               lmax |-> lmax, mask |-> mask, coeffs |-> a, copy |-> copy,
               origin |-> "", sets |-> <<>>],
      heap |-> [h EXCEPT ![a] = stored]]
SHRealCoeffs_init(h, arr, at, normalization, csphase, copy) ==
  CoeffsInit("real", h, arr, at, normalization, csphase, copy)
SHComplexCoeffs_init(h, arr, at, normalization, csphase, copy) ==
  CoeffsInit("complex", h, arr, at, normalization, csphase, copy)

\* for cls in self.__subclasses__(): if cls.istype(kind): return cls(...)
\* no class answers to a kind that is neither 'real' nor 'complex'
Subclass(kind) == IF kind = "real" THEN "SHRealCoeffs"
                  ELSE IF kind = "complex" THEN "SHComplexCoeffs" ELSE "None"
Construct(kind, h, arr, at, normalization, csphase, copy) ==
  IF Subclass(kind) = "SHRealCoeffs"
  THEN SHRealCoeffs_init(h, arr, at, normalization, csphase, copy)
  ELSE SHComplexCoeffs_init(h, arr, at, normalization, csphase, copy)

\* the argument checks shared by the entry points
CheckConvention(normalization, csphase) ==
  IF lower(normalization) \notin Normalizations THEN "ValueError"
  ELSE IF csphase # 1 /\ csphase # -1 THEN "ValueError"
  ELSE "ok"

\* SHCoeffs.from_array: the kind is read off the array
from_array(h, arr, at, normalization, csphase, copy) ==
  Construct(IF iscomplexobj(arr) THEN "complex" ELSE "real",
            h, arr, at, lower(normalization), csphase, copy)

\* SHCoeffs.from_zeros: the checks lower-case the kind, the class lookup does not,
\* and a call that finds no class falls off the loop and returns None
from_zeros_check(kind, normalization, csphase) ==
  IF lower(kind) \notin Kinds THEN "ValueError"
  ELSE IF CheckConvention(normalization, csphase) # "ok" THEN "ValueError"
  ELSE IF Subclass(kind) = "None" THEN "None"
  ELSE "ok"
from_zeros(h, lmax, kind, normalization, csphase) ==
  Construct(kind, h, zeros(lmax + 1, IF lower(kind) = "real" THEN "real" ELSE "complex"),
            0, lower(normalization), csphase, TRUE)

(* ------------------------------ the calls ----------------------------- *)
\* s = SHCoeffs.from_zeros(lmax, kind, normalization, csphase)
FromZeros(s, lmax, kind, normalization, csphase) ==
  LET st == from_zeros_check(kind, normalization, csphase)
      args == <<lmax, kind, normalization, csphase>>
  IN /\ Idle
     /\ UNCHANGED wins
     /\ objs[s].kind = "none"
     /\ calls' = <<>>
     /\ UNCHANGED <<grids, writes>>
     /\ IF st # "ok"
        THEN /\ ret' = Raise("from_zeros", st, "", args)
             /\ UNCHANGED <<heap, objs>>
        ELSE LET r == from_zeros(heap, lmax, kind, normalization, csphase)
             IN /\ heap' = r.heap
                /\ objs' = [objs EXCEPT ![s] = [r.obj EXCEPT !.origin = "from_zeros"]]
                /\ ret' = [Call("from_zeros", "", args) EXCEPT !.status = "ok", !.out = s]

\* s = SHCoeffs.from_array(heap[a], normalization, csphase, copy)
FromArray(s, a, normalization, csphase, copy) ==
  LET st == CheckConvention(normalization, csphase)
      args == <<a, normalization, csphase, copy>>
  IN /\ Idle
     /\ UNCHANGED wins
     /\ objs[s].kind = "none"
     /\ Len(heap[a].shape) = 3
     /\ calls' = <<>>
     /\ UNCHANGED <<grids, writes>>
     /\ IF st # "ok"
        THEN /\ ret' = Raise("from_array", st, "", args)
             /\ UNCHANGED <<heap, objs>>
        ELSE LET r == from_array(heap, heap[a], a, normalization, csphase, copy)
             IN /\ heap' = r.heap
                /\ objs' = [objs EXCEPT ![s] = [r.obj EXCEPT !.origin = "from_array"]]
                /\ ret' = [Call("from_array", "", args) EXCEPT !.status = "ok", !.out = s]

(* ------------------------- SHCoeffs.to_array -------------------------- *)
\* a faulty variant of the scaling below, which multiplies by sqrt(4 pi) from 'ortho' to
\* '4pi' as it does from '4pi' to 'ortho'
RescaleUp(x, l, m, normalization, output_normalization) ==
  IF normalization = output_normalization THEN x
  ELSE IF normalization = "ortho" THEN Scale(x, SqrtFourPi)
  ELSE IF output_normalization = "ortho" THEN Scale(x, SqrtFourPi)
  ELSE IF m > l THEN x
  ELSE IF normalization = "4pi" THEN Scale(x, SqrtOdd(l))
  ELSE Unscale(x, SqrtOdd(l))
\* SHRealCoeffs._to_array and SHComplexCoeffs._to_array (the same text): the
\* conversion of one entry of the copy of self.coeffs[:, :lmax+1, :lmax+1]
Rescale(x, l, m, normalization, output_normalization) ==
  IF normalization = output_normalization THEN x
  ELSE IF normalization = "4pi" /\ output_normalization = "schmidt"
  THEN (IF m <= l THEN Scale(x, SqrtOdd(l)) ELSE x)
  ELSE IF normalization = "4pi" /\ output_normalization = "ortho"
  THEN Scale(x, SqrtFourPi)
  ELSE IF normalization = "schmidt" /\ output_normalization = "4pi"
  THEN (IF m <= l THEN Unscale(x, SqrtOdd(l)) ELSE x)
  ELSE IF normalization = "schmidt" /\ output_normalization = "ortho"
  THEN (IF m <= l THEN Scale(x, SqrtFourPi * Inv(SqrtOdd(l))) ELSE x)
  ELSE IF normalization = "ortho" /\ output_normalization = "4pi"
  THEN Unscale(x, SqrtFourPi)
  ELSE IF normalization = "ortho" /\ output_normalization = "schmidt"
  THEN (IF m <= l THEN Scale(x, SqrtOdd(l) * Inv(SqrtFourPi)) ELSE x)
  ELSE x
\* a faulty variant of the change of phase below, which never changes a sign
RephaseNever(x, m, csphase, output_csphase) == x
Rephase(x, m, csphase, output_csphase) ==
  IF output_csphase # csphase /\ m % 2 = 1 THEN CNeg(x) ELSE x
_to_array(self, h, output_normalization, output_csphase, lmax) ==
  [dtype |-> h[self.coeffs].dtype, shape |-> <<2, lmax + 1, lmax + 1>>,
   dat |-> [ix \in Idx(lmax + 1) |->
              Rephase(Rescale(h[self.coeffs].dat[ix], ix[2], ix[3],
                              self.normalization, output_normalization),
                      ix[3], self.csphase, output_csphase)]]

\* SHCoeffs.to_array: "ValueError" or the array returned
to_array_check(self, normalization, csphase, lmax) ==
  LET n == Default(normalization, self.normalization)
      c == Default(csphase, self.csphase)
  IN IF CheckConvention(n, c) # "ok" THEN "ValueError"
     ELSE IF lmax # <<>> /\ lmax[1] > self.lmax THEN "ValueError"
     ELSE "ok"
to_array(self, h, normalization, csphase, lmax) ==
  _to_array(self, h, lower(Default(normalization, self.normalization)),
            Default(csphase, self.csphase), Default(lmax, self.lmax))

\* heap[ret.arr] = s.to_array(normalization, csphase, lmax)
ToArray(s, normalization, csphase, lmax) ==
  LET self == objs[s]
      st == to_array_check(self, normalization, csphase, lmax)
      args == <<normalization, csphase, lmax>>
  IN /\ Idle
     /\ UNCHANGED wins
     /\ s # "r"
     /\ self.kind # "none"
     /\ calls' = <<>>
     /\ UNCHANGED <<grids, writes>>
     /\ UNCHANGED objs
     /\ IF st # "ok"
        THEN /\ ret' = Raise("to_array", st, s, args)
             /\ UNCHANGED heap
        ELSE LET a == NewAddr(heap)
             IN /\ heap' = [heap EXCEPT ![a] = to_array(self, heap, normalization, csphase, lmax)]
                /\ ret' = [Call("to_array", s, args) EXCEPT !.status = "ok", !.arr = a]

(* -------------------------- SHCoeffs.convert -------------------------- *)
\* numpy's == on two numbers: nan equals nothing
NumEq(a, b) == a # NaN /\ b # NaN /\ a = b
Half == Inv(2)

\* _shtools.SHrtoc(rcilm, convention=1, switchcs=0): plane 0 is the real and plane 1
\* the imaginary part of c(l,m) = (a(l,m) - i b(l,m))/2 for 0 < m <= l, c(l,0) = a(l,0)
SHrtoc(dat, n) ==
  [ix \in Idx(n) |->
     LET l == ix[2]
         m == ix[3]
     IN IF m > l THEN Zero
        ELSE IF m = 0 THEN (IF ix[1] = 0 THEN Re(dat[<<0, l, 0>>]) ELSE Zero)
        ELSE IF ix[1] = 0 THEN Scale(Re(dat[<<0, l, m>>]), Half)
        ELSE CNeg(Scale(Re(dat[<<1, l, m>>]), Half))]
\* _shtools.SHctor(ccilm, convention=1, switchcs=0): the inverse of SHrtoc
SHctor(dat, n) ==
  [ix \in Idx(n) |->
     LET l == ix[2]
         m == ix[3]
     IN IF m > l THEN Zero
        ELSE IF m = 0 THEN (IF ix[1] = 0 THEN dat[<<0, l, 0>>] ELSE Zero)
        ELSE IF ix[1] = 0 THEN Scale(dat[<<0, l, m>>], 2)
        ELSE CNeg(Scale(dat[<<1, l, m>>], 2))]

\* a faulty variant of _make_complex, which leaves out the change of sign of the odd orders
_make_complex_unsigned(dat, n) ==
  LET rcomplex_coeffs == SHrtoc(dat, n)
      plane0 == [ix \in Idx(n) |->
                   CAdd(rcomplex_coeffs[<<0, ix[2], ix[3]>>],
                        CMul(<<0, 1>>, rcomplex_coeffs[<<1, ix[2], ix[3]>>]))]
  IN [dtype |-> "complex", shape |-> <<2, n, n>>,
      dat |-> [ix \in Idx(n) |->
                 IF ix[1] = 0 THEN plane0[ix] ELSE Conj(plane0[<<0, ix[2], ix[3]>>])]]
\* SHRealCoeffs._make_complex: the array handed to from_array(copy=False)
_make_complex(dat, n) ==
  LET rcomplex_coeffs == SHrtoc(dat, n)
      plane0 == [ix \in Idx(n) |->
                   CAdd(rcomplex_coeffs[<<0, ix[2], ix[3]>>],
                        CMul(<<0, 1>>, rcomplex_coeffs[<<1, ix[2], ix[3]>>]))]
  IN [dtype |-> "complex", shape |-> <<2, n, n>>,
      dat |-> [ix \in Idx(n) |->
                 IF ix[1] = 0 THEN plane0[ix]
                 ELSE IF ix[3] % 2 = 1 THEN CNeg(Conj(plane0[<<0, ix[2], ix[3]>>]))
                 ELSE Conj(plane0[<<0, ix[2], ix[3]>>])]]

\* a faulty variant of the test below, which looks at the orders 0 only
IsRealFieldZonal(dat, lmax) ==
  \A l \in 0..lmax : NumEq(dat[<<0, l, 0>>], Conj(dat[<<0, l, 0>>]))
\* SHComplexCoeffs._make_real: the test that the coefficients are those of a real field
IsRealField(dat, lmax) ==
  \A l \in 0..lmax :
    /\ NumEq(dat[<<0, l, 0>>], Conj(dat[<<0, l, 0>>]))
    /\ \A m \in 1..l :
         IF m % 2 = 1 THEN NumEq(dat[<<0, l, m>>], CNeg(Conj(dat[<<1, l, m>>])))
         ELSE NumEq(dat[<<0, l, m>>], Conj(dat[<<1, l, m>>]))
\* SHComplexCoeffs._make_real: the array handed to from_array
_make_real(dat, n) ==
  LET coeffs_rc == [ix \in Idx(n) |->
                      IF dat[<<0, ix[2], ix[3]>>] = NaN THEN NaN
                      ELSE IF ix[1] = 0 THEN <<dat[<<0, ix[2], ix[3]>>][1], 0>>
                      ELSE <<dat[<<0, ix[2], ix[3]>>][2], 0>>]
  IN [dtype |-> "real", shape |-> <<2, n, n>>, dat |-> SHctor(coeffs_rc, n)]

\* SHCoeffs.convert: the status, and when it is "ok" the instance returned and the
\* heap with its array; calls are the backend primitives invoked
convert(self, h, normalization, csphase, lmax, kind, check) ==
  LET n == Default(normalization, self.normalization)
      c == Default(csphase, self.csphase)
      L == Default(lmax, self.lmax)
      k == Default(kind, self.kind)
      fail(st, cs) == [status |-> st, obj |-> NoObj, heap |-> h, calls |-> cs]
      \* coeffs = src.to_array(...); return SHCoeffs.from_array(coeffs, ..., copy=False)
      finish(src, hs, cs) ==
        IF to_array_check(src, <<lower(n)>>, <<c>>, <<L>>) # "ok" THEN fail("ValueError", cs)
        ELSE LET r == from_array(hs, to_array(src, hs, <<lower(n)>>, <<c>>, <<L>>), 0,
                                 lower(n), c, FALSE)
             IN [status |-> "ok", obj |-> r.obj, heap |-> r.heap, calls |-> cs]
  IN IF CheckConvention(n, c) # "ok" THEN fail("ValueError", <<>>)
     ELSE IF k = self.kind THEN finish(self, h, <<>>)
     ELSE IF k = "complex"
     THEN LET temp == from_array(h, _make_complex(h[self.coeffs].dat, self.lmax + 1), 0,
                                 self.normalization, self.csphase, FALSE)
          IN finish(temp.obj, temp.heap, <<"SHrtoc">>)
     ELSE IF self.kind = "real" THEN fail("AttributeError", <<>>)
     ELSE IF check /\ ~IsRealField(h[self.coeffs].dat, self.lmax) THEN fail("RuntimeError", <<>>)
     ELSE LET temp == from_array(h, _make_real(h[self.coeffs].dat, self.lmax + 1), 0,
                                 self.normalization, self.csphase, TRUE)
          IN finish(temp.obj, temp.heap, <<"SHctor">>)

\* r = s.convert(normalization, csphase, lmax, kind, check)
Convert(s, normalization, csphase, lmax, kind, check) ==
  LET self == objs[s]
      args == <<normalization, csphase, lmax, kind, check>>
      r == convert(self, heap, normalization, csphase, lmax, kind, check)
  IN /\ Idle
     /\ UNCHANGED wins
     /\ s # "r"
     /\ self.kind # "none"
     /\ calls' = r.calls
     /\ UNCHANGED <<grids, writes>>
     /\ IF r.status # "ok"
        THEN /\ ret' = Raise("convert", r.status, s, args)
             /\ UNCHANGED <<heap, objs>>
        ELSE /\ objs' = [objs EXCEPT !["r"] = r.obj]
             /\ heap' = Collect(r.heap, objs', grids', {})
             /\ ret' = [Call("convert", s, args) EXCEPT !.status = "ok", !.out = "r"]

(* ------------------------- SHCoeffs arithmetic ------------------------ *)
\* the operators __add__, __radd__, __sub__, __rsub__, __mul__, __rmul__, __div__,
\* __truediv__ on one pair of elements; a is the element of self
Operators == {"add", "radd", "sub", "rsub", "mul", "rmul", "div", "truediv"}
ElementOp(op, a, b) ==
  CASE op \in {"add", "radd"} -> CAdd(a, b)
    [] op = "sub" -> CSub(a, b)
    [] op = "rsub" -> CSub(b, a)
    [] op \in {"mul", "rmul"} -> CMul(a, b)
    [] op \in {"div", "truediv"} -> CDiv(a, b)
\* an assignment into the float array numpy.zeros([2, lmax+1, lmax+1]) keeps the real part
ToFloat(x) == IF x = NaN THEN NaN ELSE Re(x)

\* a faulty variant of the test below, which lets instances of different kind combine
SameConventionButKind(self, other) ==
  self.normalization = other.normalization /\ self.csphase = other.csphase
\* the test of the operators on two instances
SameConvention(self, other) ==
  self.normalization = other.normalization /\ self.csphase = other.csphase /\ self.kind = other.kind

\* coeffs = zeros; coeffs[self.mask] = self.coeffs[self.mask] op other.coeffs[self.mask]
\* and the same with a scalar
Combine(op, self, h, otherdat) ==
  [dtype |-> "real", shape |-> <<2, self.lmax + 1, self.lmax + 1>>,
   dat |-> [ix \in Idx(self.lmax + 1) |->
              IF ix \in self.mask THEN ToFloat(ElementOp(op, h[self.coeffs].dat[ix], otherdat[ix]))
              ELSE Zero]]
\* self op other for two instances: the status, and the instance built by
\* SHCoeffs.from_array(coeffs, csphase=self.csphase, normalization=self.normalization).
\* The mask of self does not fit the array of an instance of another lmax.
binary_check(self, other) ==
  IF ~SameConvention(self, other) THEN "ValueError"
  ELSE IF other.lmax # self.lmax THEN "IndexError"
  ELSE "ok"
binary(op, self, other, h) ==
  from_array(h, Combine(op, self, h, h[other.coeffs].dat), 0, self.normalization, self.csphase, TRUE)
binary_scalar(op, self, v, h) ==
  from_array(h, Combine(op, self, h, [ix \in Idx(self.lmax + 1) |-> v]), 0,
             self.normalization, self.csphase, TRUE)
\* a faulty variant of __pow__, which raises self.coeffs in place: self.coeffs **= other
pow_in_place(self, k, h) ==
  from_array(h, [h[self.coeffs] EXCEPT !.dat = [ix \in Idx(self.lmax + 1) |-> CPow(h[self.coeffs].dat[ix], k)]],
             self.coeffs, self.normalization, self.csphase, FALSE)
\* SHCoeffs.__pow__: pow(self.coeffs, other) on the whole array
pow(self, k, h) ==
  from_array(h, [h[self.coeffs] EXCEPT !.dat = [ix \in Idx(self.lmax + 1) |-> CPow(h[self.coeffs].dat[ix], k)]],
             0, self.normalization, self.csphase, TRUE)

\* r = s op t for the instances s and t
Binary(op, s, t) ==
  LET self == objs[s]
      other == objs[t]
      st == binary_check(self, other)
  IN /\ Idle
     /\ UNCHANGED wins
     /\ s # "r" /\ t # "r"
     /\ self.kind # "none" /\ other.kind # "none"
     /\ calls' = <<>>
     /\ UNCHANGED <<grids, writes>>
     /\ IF st # "ok"
        THEN /\ ret' = [Raise(op, st, s, <<>>) EXCEPT !.other = t]
             /\ UNCHANGED <<heap, objs>>
        ELSE LET r == binary(op, self, other, heap)
             IN /\ heap' = r.heap
                /\ objs' = [objs EXCEPT !["r"] = r.obj]
                /\ ret' = [Call(op, s, <<>>) EXCEPT !.status = "ok", !.other = t, !.out = "r"]

\* r = s op v for the scalar v, or r = s ** v
Scalar(op, s, v) ==
  LET self == objs[s]
      r == IF op = "pow" THEN pow(self, v, heap) ELSE binary_scalar(op, self, Real(v), heap)
  IN /\ Idle
     /\ UNCHANGED wins
     /\ s # "r"
     /\ self.kind # "none"
     /\ calls' = <<>>
     /\ UNCHANGED <<grids, writes>>
     /\ heap' = r.heap
     /\ objs' = [objs EXCEPT !["r"] = r.obj]
     /\ ret' = [Call(op, s, <<v>>) EXCEPT !.status = "ok", !.out = "r"]

\* r = s op other for an operand that is neither an instance nor a scalar
Unsupported(op, s) ==
  /\ Idle
  /\ UNCHANGED wins
  /\ s # "r"
  /\ objs[s].kind # "none"
  /\ calls' = <<>>
  /\ ret' = Raise(op, "NotImplementedError", s, <<"list">>)
  /\ UNCHANGED <<heap, objs, grids, writes>>

(* ------------------------- SHCoeffs.set_coeffs ------------------------ *)
\* self.coeffs[(ms < 0).astype(int), ls, abs(ms)] = values for parallel lists, given as
\* the sequence of the triples <<value, l, m>>; of two writes to one entry the last stays
set_coeffs_check(self, items) ==
  IF \E i \in 1..Len(items) : items[i][2] > self.lmax \/ items[i][3] > self.lmax
                               \/ 0 - items[i][3] > self.lmax
  THEN "IndexError" ELSE "ok"
\* a faulty variant of the index below, which writes every value into plane 0
TargetPlaneZero(item) == <<0, item[2], IF item[3] < 0 THEN 0 - item[3] ELSE item[3]>>
\* the index (mneg_mask, l, abs(m)) of one triple
Target(item) == <<IF item[3] < 0 THEN 1 ELSE 0, item[2], IF item[3] < 0 THEN 0 - item[3] ELSE item[3]>>
set_coeffs(dat, items) ==
  [ix \in DOMAIN dat |->
     LET hits == {i \in 1..Len(items) : Target(items[i]) = ix}
     IN IF hits = {} THEN dat[ix]
        ELSE Real(items[CHOOSE i \in hits : \A j \in hits : j <= i][1])]

\* s.set_coeffs(values, ls, ms)
SetCoeffs(s, items) ==
  LET self == objs[s]
      st == set_coeffs_check(self, items)
  IN /\ Idle
     /\ UNCHANGED wins
     /\ s # "r"
     /\ self.kind # "none"
     /\ writes < MaxWrites
     /\ writes' = writes + 1
     /\ calls' = <<>>
     /\ ret' = Raise("set_coeffs", st, s, items)
     /\ UNCHANGED grids
     /\ objs' = IF st # "ok" THEN objs ELSE [objs EXCEPT ![s].sets = Append(@, items)]
     /\ heap' = IF st # "ok" THEN heap
                ELSE [heap EXCEPT ![self.coeffs].dat = set_coeffs(heap[self.coeffs].dat, items)]

(* -------------------------- SHCoeffs.spectrum ------------------------- *)
\* _shtools.SHPowerSpectrum and SHPowerSpectrumC: for each degree the sum of the squared
\* magnitudes of the coefficients of the orders 0..l of both planes
RECURSIVE SumSq(_, _, _)
SumSq(dat, l, m) ==
  IF m < 0 THEN 0
  ELSE (Norm2(dat[<<0, l, m>>]) + Norm2(dat[<<1, l, m>>]) + SumSq(dat, l, m - 1)) % Modulus
SHPowerSpectrum(dat, lmax) ==
  [i \in 1..(lmax + 1) |->
     IF \E m \in 0..(i - 1), p \in 0..1 : dat[<<p, i - 1, m>>] = NaN THEN NaN
     ELSE <<SumSq(dat, i - 1, i - 1), 0>>]

Conventions == {"power", "energy", "l2norm"}
Units == {"per_l", "per_lm", "per_dlogl"}
\* the second part of _spectrum: the scaling by the unit
UnitScale(x, l, unit) ==
  IF unit = "per_l" THEN x
  ELSE IF unit = "per_lm" THEN Unscale(x, 2 * l + 1)
  ELSE Scale(x, l * LogBase)
\* a faulty variant of the scaling below, which does not divide the power of
\* orthonormalized coefficients by 4 pi
ConventionScaleOrtho(x, l, normalization, convention) ==
  LET p == IF convention = "l2norm" \/ normalization = "4pi" THEN x
           ELSE IF normalization = "schmidt" THEN Unscale(x, 2 * l + 1)
           ELSE x
  IN IF convention = "energy" THEN Scale(p, FourPi) ELSE p
\* a faulty variant of the scaling below, which leaves out the factor 4 pi of the energy for
\* Schmidt semi-normalized coefficients
ConventionScaleSchmidt(x, l, normalization, convention) ==
  IF convention = "l2norm" THEN x
  ELSE IF normalization = "schmidt" THEN Unscale(x, 2 * l + 1)
  ELSE IF normalization = "4pi" THEN (IF convention = "energy" THEN Scale(x, FourPi) ELSE x)
  ELSE (IF convention = "energy" THEN Scale(Unscale(x, FourPi), FourPi) ELSE Unscale(x, FourPi))
\* the first part of _spectrum: the scaling by the normalization and the convention
ConventionScale(x, l, normalization, convention) ==
  LET p == IF convention = "l2norm" \/ normalization = "4pi" THEN x
           ELSE IF normalization = "schmidt" THEN Unscale(x, 2 * l + 1)
           ELSE Unscale(x, FourPi)
  IN IF convention = "energy" THEN Scale(p, FourPi) ELSE p
\* SHRealCoeffs._spectrum and SHComplexCoeffs._spectrum: the convention is tested before
\* the backend is called, the unit after
_spectrum(self, h, convention, unit) ==
  IF lower(convention) \notin Conventions
  THEN [status |-> "ValueError", val |-> <<>>, calls |-> <<>>]
  ELSE LET prim == IF self.kind = "real" THEN "SHPowerSpectrum" ELSE "SHPowerSpectrumC"
           sp == SHPowerSpectrum(h[self.coeffs].dat, self.lmax)
       IN IF lower(unit) \notin Units
          THEN [status |-> "ValueError", val |-> <<>>, calls |-> <<prim>>]
          ELSE [status |-> "ok", calls |-> <<prim>>,
                val |-> [i \in 1..(self.lmax + 1) |->
                           UnitScale(ConventionScale(sp[i], i - 1, self.normalization,
                                                     lower(convention)),
                                     i - 1, lower(unit))]]
\* SHCoeffs.spectrum
spectrum(self, h, convention, unit) == _spectrum(self, h, convention, unit)

\* ret.val = s.spectrum(convention, unit)
Spectrum(s, convention, unit) ==
  LET self == objs[s]
      r == spectrum(self, heap, convention, unit)
  IN /\ Idle
     /\ UNCHANGED wins
     /\ s # "r"
     /\ self.kind # "none"
     /\ calls' = r.calls
     /\ ret' = [Call("spectrum", s, <<convention, unit>>) EXCEPT !.status = r.status, !.val = r.val]
     /\ UNCHANGED <<heap, objs, grids, writes>>

(* --------------------------- SHCoeffs.rotate -------------------------- *)
\* _shtools.SHRotateRealCoef for the Euler angles (alpha, 0, 0) with alpha 0 or 180
\* degrees: a rotation about z by alpha takes the coefficients of order m to themselves
\* times cos(m alpha); the primitive fills the orders 0..l only
SHRotateRealCoef(dat, n, alpha) ==
  [ix \in Idx(n) |->
     IF ix \notin MakeMask(n - 1) THEN Zero
     ELSE IF alpha = 180 /\ ix[3] % 2 = 1 THEN CNeg(dat[ix]) ELSE dat[ix]]

\* SHCoeffs.rotate with SHRealCoeffs._rotate and SHComplexCoeffs._rotate
rotate(self, h, alpha) ==
  IF self.kind = "real"
  THEN LET coeffs == [dtype |-> "real", shape |-> h[self.coeffs].shape,
                      dat |-> SHRotateRealCoef(to_array(self, h, <<"4pi">>, <<1>>, <<>>).dat,
                                               self.lmax + 1, alpha)]
           cs == <<"djpi2", "SHRotateRealCoef">>
       IN IF self.normalization # "4pi" \/ self.csphase # 1
          \* SHCoeffs.from_array(coeffs, kind='real'): from_array has no argument kind
          THEN [status |-> "TypeError", obj |-> NoObj, heap |-> h, calls |-> cs]
          ELSE LET r == from_array(h, coeffs, 0, "4pi", 1, FALSE)
               IN [status |-> "ok", obj |-> r.obj, heap |-> r.heap, calls |-> cs]
  ELSE LET coeffs == [dtype |-> "complex", shape |-> h[self.coeffs].shape,
                      dat |-> SHRotateRealCoef(h[self.coeffs].dat, self.lmax + 1, alpha)]
           r == from_array(h, coeffs, 0, self.normalization, self.csphase, FALSE)
       IN [status |-> "ok", obj |-> r.obj, heap |-> r.heap,
           calls |-> <<"djpi2", "MakeGridDHC", "SHExpandDH", "SHExpandDH", "SHRotateRealCoef",
                       "SHRotateRealCoef", "MakeGridDH", "MakeGridDH", "SHExpandDHC">>]

\* r = s.rotate(alpha, 0, 0, degrees=True)
Rotate(s, alpha) ==
  LET self == objs[s]
      r == rotate(self, heap, alpha)
  IN /\ Idle
     /\ UNCHANGED wins
     /\ s # "r"
     /\ self.kind # "none"
     /\ calls' = r.calls
     /\ UNCHANGED <<grids, writes>>
     /\ IF r.status # "ok"
        THEN /\ ret' = Raise("rotate", r.status, s, <<alpha>>)
             /\ UNCHANGED <<heap, objs>>
        ELSE /\ objs' = [objs EXCEPT !["r"] = r.obj]
             /\ heap' = r.heap
             /\ ret' = [Call("rotate", s, <<alpha>>) EXCEPT !.status = "ok", !.out = "r"]

(* ------------------------------- SHGrid ------------------------------- *)
\* str.upper() on the strings the caller passes
upper(s) == CASE s = "dh" -> "DH"
              [] s = "glq" -> "GLQ"
              [] OTHER -> s
GridArgs == {"DH", "GLQ", "dh", "bogus"}

\* a faulty variant of the test below, which accepts an odd number of latitudes
grid_init_check_any_nlat(grid, nlat, nlon) ==
  IF grid = "DH"
  THEN (IF nlon = 2 * nlat \/ nlat = nlon THEN "ok" ELSE "ValueError")
  ELSE (IF nlon # 2 * (nlat - 1) + 1 THEN "ValueError" ELSE "ok")
\* DHRealGrid.__init__, DHComplexGrid.__init__, GLQRealGrid.__init__ and
\* GLQComplexGrid.__init__: the test of the shape
grid_init_check(grid, nlat, nlon) ==
  IF grid = "DH"
  THEN (IF nlat % 2 # 0 THEN "ValueError"
        ELSE IF nlon = 2 * nlat \/ nlat = nlon THEN "ok" ELSE "ValueError")
  ELSE (IF nlon # 2 * (nlat - 1) + 1 THEN "ValueError" ELSE "ok")
\* the instance and the heap with its array; at is the address of the array passed
grid_init(kind, grid, h, at, copy) ==
  LET nlat == h[at].shape[1]
      nlon == h[at].shape[2]
      a == IF copy THEN NewAddr(h) ELSE at
  IN [obj |-> [kind |-> kind, grid |-> grid,
               sampling |-> IF grid # "DH" THEN 0 ELSE IF nlon = 2 * nlat THEN 2 ELSE 1,
               nlat |-> nlat, nlon |-> nlon,
               lmax |-> IF grid = "DH" THEN (nlat \div 2) - 1 ELSE nlat - 1,
               data |-> a, copy |-> copy],
      heap |-> [h EXCEPT ![a] = h[at]]]
\* SHGrid.from_array: the test of grid folds the case, the class lookup does not, and a call
\* that finds no class returns None
grid_from_array_check(h, at, grid) ==
  IF upper(grid) \notin {"DH", "GLQ"} THEN "ValueError"
  ELSE IF grid \notin {"DH", "GLQ"} THEN "None"
  ELSE grid_init_check(grid, h[at].shape[1], h[at].shape[2])

\* s = SHGrid.from_array(heap[a], grid, copy)
GridFromArray(s, a, grid, copy) ==
  LET st == grid_from_array_check(heap, a, grid)
      args == <<a, grid, copy>>
  IN /\ Idle
     /\ UNCHANGED wins
     /\ s # "r"
     /\ grids[s].kind = "none"
     /\ a \in ext /\ Len(heap[a].shape) = 2
     /\ calls' = IF st = "ok" /\ grid = "GLQ" THEN <<"SHGLQ">> ELSE <<>>
     /\ UNCHANGED <<objs, writes>>
     /\ IF st # "ok"
        THEN /\ ret' = Raise("SHGrid.from_array", st, "", args)
             /\ UNCHANGED <<heap, grids>>
        ELSE LET r == grid_init(IF iscomplexobj(heap[a]) THEN "complex" ELSE "real", grid,
                                heap, a, copy)
             IN /\ heap' = r.heap
                /\ grids' = [grids EXCEPT ![s] = r.obj]
                /\ ret' = [Call("SHGrid.from_array", "", args) EXCEPT !.status = "ok", !.out = s]

\* heap[ret.arr] = s.to_grid(), which is self.data itself
ToGrid(s) ==
  /\ Idle
  /\ UNCHANGED wins
  /\ s # "r"
  /\ grids[s].kind # "none"
  /\ calls' = <<>>
  /\ ret' = [Call("to_grid", s, <<>>) EXCEPT !.status = "ok", !.arr = grids[s].data]
  /\ UNCHANGED <<heap, objs, grids, writes>>

(* ------------------------------ SHWindow ------------------------------ *)
\* the largest bandwidth lwin of the windows the caller builds
MaxLwin == 1

\* the floats the caller passes as angles: <<n, k>> is the number 90 n + k pi/2
FZero == <<0, 0>>
Ninety == <<1, 0>>
HalfPi == <<0, 1>>
FSub(a, b) == <<a[1] - b[1], a[2] - b[2]>>
\* numpy.radians(x) for coord_degrees, x itself otherwise, as a number of quarter turns: 90
\* degrees and pi/2 radians are one quarter turn; pi/2 degrees and 90 radians are no multiple
\* of a quarter turn, and the additive map that takes each of them to three quarter turns keeps
\* every identity between the angles
Turns(x, coord_degrees) ==
  IF coord_degrees THEN (x[1] + 3 * x[2]) % 4 ELSE (3 * x[1] + x[2]) % 4

\* a half turn about the y axis: the cosine coefficients of degree l are multiplied by (-1)^l,
\* the sine coefficients by -(-1)^l
HalfTurnY(dat, n) ==
  [ix \in Idx(n) |-> IF (ix[1] + ix[2]) % 2 = 1 THEN CNeg(dat[ix]) ELSE dat[ix]]
\* _shtools.SHRotateRealCoef for the Euler angles (0, beta, gamma) in quarter turns, each of
\* them a half turn or none: the rotation about y by -beta, then the one about z by -gamma
SHRotateRealCoefYZ(dat, n, beta, gamma) ==
  LET y == CASE beta % 4 = 0 -> dat
             [] beta % 4 = 2 -> HalfTurnY(dat, n)
  IN CASE gamma % 4 = 0 -> SHRotateRealCoef(y, n, 0)
       [] gamma % 4 = 2 -> SHRotateRealCoef(y, n, 180)

\* _shtools.SHCilmToVector and SHVectorToCilm: the coefficient (i, l, m) is the entry
\* l^2 + i l + m of the vector of length (lmax+1)^2
VecIndex(ix) == ix[2] * ix[2] + ix[1] * ix[2] + ix[3]
SHCilmToVector(dat, n) ==
  [k \in 0..(n * n - 1) |-> dat[CHOOSE ix \in MakeMask(n - 1) : VecIndex(ix) = k]]
SHVectorToCilm(vec, n) ==
  [ix \in Idx(n) |-> IF ix \in MakeMask(n - 1) THEN vec[VecIndex(ix)] ELSE Zero]

\* _shtools.SHReturnTapers(theta, lwin): the (lwin+1)^2 tapers of the cap of radius theta,
\* sorted by eigenvalue.  A taper has one order m and a value for each degree l >= |m|.
TaperOrder(i) ==
  LET l == CHOOSE d \in 0..i : d * d <= i /\ i < (d + 1) * (d + 1)
  IN i - l * l - l
Abs(m) == IF m < 0 THEN 0 - m ELSE m
SHReturnTapers(theta, lwin) ==
  LET N == (lwin + 1) * (lwin + 1)
  IN [tapers |-> [dtype |-> "real", shape |-> <<lwin + 1, N>>,
                  dat |-> [ix \in Idx2(lwin + 1, N) |->
                             IF ix[1] < Abs(TaperOrder(ix[2])) THEN Zero
                             ELSE Real(1 + theta + ix[1] + 2 * ix[2])]],
      eigenvalues |-> [i \in 0..(N - 1) |-> Real(N - i)],
      taper_order |-> [i \in 0..(N - 1) |-> TaperOrder(i)]]
\* _shtools.SHReturnTapersMap(dh_mask, lwin, ntapers): ntapers tapers as vectors of length
\* (lwin+1)^2, sorted by eigenvalue
SHReturnTapersMap(dh_mask, lwin, ntapers) ==
  LET N == (lwin + 1) * (lwin + 1)
  IN [tapers |-> [dtype |-> "real", shape |-> <<N, ntapers>>,
                  dat |-> [ix \in Idx2(N, ntapers) |-> Real(1 + ix[1] + 3 * ix[2])]],
      eigenvalues |-> [i \in 0..(ntapers - 1) |-> Real(N - i)]]

Min(a, b) == IF a < b THEN a ELSE b
\* array[:, :n]
Columns(arr, n) ==
  LET cols == Min(n, arr.shape[2])
  IN [arr EXCEPT !.shape = <<arr.shape[1], cols>>,
                 !.dat = [ix \in Idx2(arr.shape[1], cols) |-> arr.dat[ix]]]
\* array[:n]
Leading(arr, n) == [i \in 0..(Min(n, Cardinality(DOMAIN arr)) - 1) |-> arr[i]]

\* SHWindowCap._taper2coeffs: coeffs[0 or 1, :, abs(taperm)] = self.tapers[:, itaper]
_taper2coeffs(self, itaper) ==
  LET taperm == self.orders[itaper]
  IN [ix \in Idx(self.lwin + 1) |->
        IF ix[1] = (IF taperm < 0 THEN 1 ELSE 0) /\ ix[3] = Abs(taperm)
        THEN self.tapers.dat[<<ix[2], itaper>>] ELSE Zero]

\* a faulty variant of rotate, which keeps of the window the tapers it rotated only
cap_rotate_truncating(self, clat, clon, coord_degrees, nwinrot) ==
  LET n == self.lwin + 1
      k == Min(Default(nwinrot, self.nwin), self.nwin)
  IN [status |-> "ok",
      win |-> [self EXCEPT !.clat = clat, !.clon = clon, !.coord_degrees = coord_degrees,
                           !.nwinrot = <<k>>, !.nwin = k, !.tapers = Columns(self.tapers, k),
                           !.eigenvalues = Leading(self.eigenvalues, k),
                           !.orders = Leading(self.orders, k),
                           !.coeffs = <<[dtype |-> "real", shape |-> <<n * n, k>>,
                                         dat |-> [ix \in Idx2(n * n, k) |->
                                                    SHCilmToVector(_taper2coeffs(self, ix[2]), n)[ix[1]]]]>>],
      calls |-> <<"SHWindowCap.rotate">>]
\* SHWindowCap.rotate, for clat and clon a float or None: the status and the instance as the
\* call leaves it.  The fields are assigned before the tapers are rotated one by one, and
\* taper number nwin does not exist.
cap_rotate(self, clat, clon, coord_degrees, nwinrot) ==
  LET n == self.lwin + 1
      k == Default(nwinrot, self.nwin)
      assigned == [self EXCEPT !.coeffs = <<[dtype |-> "real", shape |-> <<n * n, self.nwin>>,
                                             dat |-> [ix \in Idx2(n * n, self.nwin) |-> Zero]]>>,
                               !.clat = clat, !.clon = clon, !.coord_degrees = coord_degrees,
                               !.nwinrot = <<k>>]
  IN IF clat = <<>> \/ clon = <<>>
     THEN [status |-> "TypeError", win |-> assigned, calls |-> <<"SHWindowCap.rotate">>]
     ELSE
       LET pole == \/ coord_degrees /\ clat[1] = Ninety /\ clon[1] = FZero
                   \/ ~coord_degrees /\ clat[1] = HalfPi /\ clon[1] = FZero
           beta == 0 - Turns(FSub(IF coord_degrees THEN Ninety ELSE HalfPi, clat[1]), coord_degrees)
           gamma == 0 - Turns(clon[1], coord_degrees)
           column(i) ==
             SHCilmToVector(IF pole THEN _taper2coeffs(self, i)
                            ELSE SHRotateRealCoefYZ(_taper2coeffs(self, i), n, beta, gamma), n)
           done == Min(k, Cardinality(DOMAIN self.orders))
           each == IF pole THEN <<"SHCilmToVector">> ELSE <<"SHRotateRealCoef", "SHCilmToVector">>
       IN [status |-> IF k > done THEN "IndexError" ELSE "ok",
           win |-> [assigned EXCEPT
                      !.dj_matrix = <<n>>,
                      !.coeffs = <<[dtype |-> "real", shape |-> <<n * n, self.nwin>>,
                                    dat |-> [ix \in Idx2(n * n, self.nwin) |->
                                               IF ix[2] < done THEN column(ix[2])[ix[1]]
                                               ELSE Zero]]>>],
           calls |-> <<"SHWindowCap.rotate">>
                     \o (IF self.dj_matrix = <<>> THEN <<"djpi2">> ELSE <<>>)
                     \o [j \in 1..(done * Len(each)) |-> each[((j - 1) % Len(each)) + 1]]]

\* a faulty variant of the test below, which lets one window too many pass
nwin_check_above(nwin, lwin) ==
  IF nwin > (lwin + 1) * (lwin + 1) + 1 THEN "ValueError" ELSE "ok"
\* SHWindowCap.__init__ and SHWindow.from_mask: if nwin > (lwin + 1)**2: raise ValueError
nwin_check(nwin, lwin) ==
  IF nwin > (lwin + 1) * (lwin + 1) THEN "ValueError" ELSE "ok"

\* SHWindowCap.__init__ with the tapers t of the backend: the status and the instance
SHWindowCap_init(theta, t, clat, clon, nwin, theta_degrees, coord_degrees, weights) ==
  LET lwin == t.tapers.shape[1] - 1
      n == Default(nwin, t.tapers.shape[2])
      self == [kind |-> "cap", theta |-> theta, theta_degrees |-> theta_degrees,
               clat |-> clat, clon |-> clon, coord_degrees |-> coord_degrees,
               lwin |-> lwin, nwin |-> n, nwinrot |-> <<>>, dj_matrix |-> <<>>,
               weights |-> weights, tapers |-> Columns(t.tapers, n),
               eigenvalues |-> Leading(t.eigenvalues, n), orders |-> Leading(t.taper_order, n),
               coeffs |-> <<>>]
  IN IF nwin_check(n, lwin) # "ok"
     THEN [status |-> "ValueError", win |-> NoWin, calls |-> <<>>]
     ELSE IF clat = <<>> /\ clon = <<>>
     THEN [status |-> "ok", win |-> self, calls |-> <<>>]
     ELSE LET r == cap_rotate(self, clat, clon, coord_degrees, <<>>)
          IN [status |-> r.status, win |-> IF r.status = "ok" THEN r.win ELSE NoWin,
              calls |-> r.calls]

\* SHWindowMask.__init__
SHWindowMask_init(t, weights) ==
  [NoWin EXCEPT !.kind = "mask", !.lwin = (CHOOSE d \in 0..t.tapers.shape[1] :
                                              d * d <= t.tapers.shape[1]
                                              /\ t.tapers.shape[1] < (d + 1) * (d + 1)) - 1,
                !.nwin = t.tapers.shape[2], !.weights = weights, !.tapers = t.tapers,
                !.eigenvalues = t.eigenvalues]

\* a faulty variant of the test below, which compares itaper with the number of columns
\* of the array only
itaper_check_columns(self, itaper) ==
  IF self.kind = "cap" /\ self.coeffs = <<>>
  THEN (IF itaper >= Cardinality(DOMAIN self.orders) THEN "IndexError" ELSE "ok")
  ELSE IF itaper >= (IF self.kind = "cap" THEN self.coeffs[1] ELSE self.tapers).shape[2]
  THEN "IndexError"
  ELSE "ok"
\* SHWindowCap._to_array and SHWindowMask._to_array: the test of itaper, and the index
\* errors of self.orders[itaper], self.tapers[:, itaper] and self.coeffs[:, itaper]
itaper_check(self, itaper) ==
  IF self.kind = "cap" /\ self.coeffs # <<>> /\ itaper > self.nwinrot[1] - 1 THEN "ValueError"
  ELSE IF self.kind = "cap" /\ self.coeffs = <<>>
  THEN (IF itaper >= Cardinality(DOMAIN self.orders) THEN "IndexError" ELSE "ok")
  ELSE IF itaper >= (IF self.kind = "cap" THEN self.coeffs[1] ELSE self.tapers).shape[2]
  THEN "IndexError"
  ELSE "ok"
\* SHWindowCap._to_array and SHWindowMask._to_array: the status and the array returned
win__to_array(self, itaper, normalization, csphase) ==
  LET n == self.lwin + 1
      rotated == self.kind = "cap" /\ self.coeffs # <<>>
      packed == IF rotated THEN self.coeffs[1] ELSE self.tapers
      st == itaper_check(self, itaper)
      coeffs == IF self.kind = "cap" /\ ~rotated THEN _taper2coeffs(self, itaper)
                ELSE SHVectorToCilm([k \in 0..(n * n - 1) |-> packed.dat[<<k, itaper>>]], n)
  IN IF st # "ok" THEN [status |-> st, arr |-> NoArr, calls |-> <<>>]
     ELSE [status |-> "ok",
           arr |-> [dtype |-> "real", shape |-> <<2, n, n>>,
                    dat |-> [ix \in Idx(n) |->
                               Rephase(Rescale(coeffs[ix], ix[2], ix[3], "4pi", normalization),
                                       ix[3], 1, csphase)]],
           calls |-> IF self.kind = "cap" /\ ~rotated THEN <<>> ELSE <<"SHVectorToCilm">>]

\* SHWindow.to_array: the message of the error for the normalization names
\* output_normalization, a variable that does not exist
win_to_array(self, itaper, normalization, csphase) ==
  IF lower(normalization) \notin Normalizations
  THEN [status |-> "NameError", arr |-> NoArr, calls |-> <<>>]
  ELSE IF csphase # 1 /\ csphase # -1
  THEN [status |-> "ValueError", arr |-> NoArr, calls |-> <<>>]
  ELSE win__to_array(self, itaper, lower(normalization), csphase)

\* SHWindow.return_coeffs: its own checks, then self.to_array and SHCoeffs.from_array
return_coeffs(self, itaper, normalization, csphase) ==
  IF CheckConvention(normalization, csphase) # "ok"
  THEN [status |-> "ValueError", arr |-> NoArr, calls |-> <<>>]
  ELSE win_to_array(self, itaper, lower(normalization), csphase)

\* w = SHWindow.from_cap(theta, lwin, clat, clon, nwin, coord_degrees=coord_degrees,
\* weights=weights), theta in degrees
FromCap(w, theta, lwin, clat, clon, nwin, coord_degrees, weights) ==
  LET r == SHWindowCap_init(theta, SHReturnTapers(theta, lwin), clat, clon, nwin, TRUE,
                            coord_degrees, weights)
      args == <<theta, lwin, clat, clon, nwin, coord_degrees, weights>>
  IN /\ Idle
     /\ wins[w].kind = "none"
     /\ calls' = <<"SHReturnTapers">> \o r.calls
     /\ UNCHANGED <<heap, objs, grids, writes>>
     /\ IF r.status # "ok"
        THEN /\ ret' = Raise("from_cap", r.status, "", args)
             /\ UNCHANGED wins
        ELSE /\ wins' = [wins EXCEPT ![w] = r.win]
             /\ ret' = [Call("from_cap", "", args) EXCEPT !.status = "ok", !.out = w]

\* SHWindow.from_mask: the checks of nwin and of the shape of dh_mask
from_mask_check(shape, lwin, nwin) ==
  IF nwin # <<>> /\ nwin_check(nwin[1], lwin) # "ok" THEN "ValueError"
  ELSE IF shape[1] % 2 # 0 THEN "ValueError"
  ELSE IF shape[2] # shape[1] /\ shape[2] # 2 * shape[1] THEN "ValueError"
  ELSE "ok"
\* w = SHWindow.from_mask(dh_mask, lwin, nwin, weights) for a grid dh_mask of the given shape
FromMask(w, shape, lwin, nwin, weights) ==
  LET st == from_mask_check(shape, lwin, nwin)
      args == <<shape, lwin, nwin, weights>>
      t == SHReturnTapersMap(shape, lwin, Default(nwin, (lwin + 1) * (lwin + 1)))
  IN /\ Idle
     /\ wins[w].kind = "none"
     /\ UNCHANGED <<heap, objs, grids, writes>>
     /\ IF st # "ok"
        THEN /\ ret' = Raise("from_mask", st, "", args)
             /\ calls' = <<>>
             /\ UNCHANGED wins
        ELSE /\ wins' = [wins EXCEPT ![w] = SHWindowMask_init(t, weights)]
             /\ calls' = <<"SHReturnTapersMap">>
             /\ ret' = [Call("from_mask", "", args) EXCEPT !.status = "ok", !.out = w]

\* w.rotate(clat, clon, coord_degrees, nwinrot=nwinrot) on a cap instance
WinRotate(w, clat, clon, coord_degrees, nwinrot) ==
  LET r == cap_rotate(wins[w], <<clat>>, <<clon>>, coord_degrees, nwinrot)
  IN /\ Idle
     /\ wins[w].kind = "cap"
     /\ wins' = [wins EXCEPT ![w] = r.win]
     /\ calls' = r.calls
     /\ ret' = Raise("SHWindow.rotate", r.status, w, <<clat, clon, coord_degrees, nwinrot>>)
     /\ UNCHANGED <<heap, objs, grids, writes>>

\* heap[ret.arr] = w.to_array(itaper, normalization, csphase)
WinToArray(w, itaper, normalization, csphase) ==
  LET r == win_to_array(wins[w], itaper, normalization, csphase)
      args == <<itaper, normalization, csphase>>
  IN /\ Idle
     /\ wins[w].kind # "none"
     /\ calls' = r.calls
     /\ UNCHANGED <<objs, grids, writes, wins>>
     /\ IF r.status # "ok"
        THEN /\ ret' = Raise("SHWindow.to_array", r.status, w, args)
             /\ UNCHANGED heap
        ELSE LET a == NewAddr(heap)
             IN /\ heap' = [heap EXCEPT ![a] = r.arr]
                /\ ret' = [Call("SHWindow.to_array", w, args) EXCEPT !.status = "ok", !.arr = a]

\* r = w.return_coeffs(itaper, normalization, csphase)
ReturnCoeffs(w, itaper, normalization, csphase) ==
  LET r == return_coeffs(wins[w], itaper, normalization, csphase)
      args == <<itaper, normalization, csphase>>
  IN /\ Idle
     /\ wins[w].kind # "none"
     /\ calls' = r.calls
     /\ UNCHANGED <<grids, writes, wins>>
     /\ IF r.status # "ok"
        THEN /\ ret' = Raise("return_coeffs", r.status, w, args)
             /\ UNCHANGED <<heap, objs>>
        ELSE LET c == from_array(heap, r.arr, 0, lower(normalization), csphase, FALSE)
             IN /\ heap' = c.heap
                /\ objs' = [objs EXCEPT !["r"] = c.obj]
                /\ ret' = [Call("return_coeffs", w, args) EXCEPT !.status = "ok", !.out = "r"]

\* a faulty variant of the choice below, which rotates whenever a centre is requested
cap_centre_requested(self, k, clat, clon, coord_degrees) ==
  LET c1 == IF clat = <<>> THEN self.clat ELSE clat
      c2 == IF clon = <<>> THEN self.clon ELSE clon
  IN IF /\ clat = <<>> /\ clon = <<>> /\ self.clat # <<>> /\ self.clon # <<>>
        /\ k <= self.nwinrot[1]
     THEN [status |-> "ok", win |-> self, calls |-> <<>>]
     ELSE IF (c1 = <<>>) # (c2 = <<>>)
     THEN [status |-> "ValueError", win |-> self, calls |-> <<>>]
     ELSE IF c1 = <<>> /\ c2 = <<>>
     THEN cap_rotate(self, <<Ninety>>, <<FZero>>, TRUE, <<k>>)
     ELSE cap_rotate(self, c1, c2, coord_degrees, <<k>>)
\* the first part of SHWindowCap._multitaperpowerspectrum and _multitapercrosspowerspectrum:
\* the stored rotated tapers are used, or the tapers are rotated to the centre
cap_centre(self, k, clat, clon, coord_degrees) ==
  LET stay == [status |-> "ok", win |-> self, calls |-> <<>>]
      c1 == IF clat = <<>> THEN self.clat ELSE clat
      c2 == IF clon = <<>> THEN self.clon ELSE clon
  IN IF /\ clat # <<>> /\ clon # <<>> /\ clat = self.clat /\ clon = self.clon
        /\ coord_degrees = self.coord_degrees /\ k <= self.nwinrot[1]
     THEN stay
     ELSE IF /\ clat = <<>> /\ clon = <<>> /\ self.clat # <<>> /\ self.clon # <<>>
             /\ k <= self.nwinrot[1]
     THEN stay
     ELSE IF (c1 = <<>>) # (c2 = <<>>)
     THEN [status |-> "ValueError", win |-> self, calls |-> <<>>]
     ELSE IF c1 = <<>> /\ c2 = <<>>
     THEN cap_rotate(self, <<Ninety>>, <<FZero>>, TRUE, <<k>>)
     ELSE cap_rotate(self, c1, c2, coord_degrees, <<k>>)

\* _shtools.SHMultiTaperMaskSE and SHMultiTaperMaskCSE: of the estimate and its standard
\* error the length lmax - lwin + 1 is modelled, not the values
MultiTaperEstimate(lmax, lwin) == [i \in 1..(lmax - lwin + 1) |-> Zero]

\* SHWindow.multitaperpowerspectrum (clms of one instance) and multitapercrosspowerspectrum
\* (clms of two), for the cap and the mask variant: the status, the instance as the call
\* leaves it and the estimate
multitaper(self, clms, k, clat, clon, coord_degrees, lmax) ==
  LET L == IF lmax # <<>> THEN lmax[1]
           ELSE IF Len(clms) = 1 THEN clms[1].lmax ELSE Min(clms[1].lmax, clms[2].lmax)
      c == IF self.kind = "cap" THEN cap_centre(self, k, clat, clon, coord_degrees)
           ELSE [status |-> "ok", win |-> self, calls |-> <<>>]
      prim == IF Len(clms) = 1 THEN "SHMultiTaperMaskSE" ELSE "SHMultiTaperMaskCSE"
  IN IF c.status # "ok" THEN [status |-> c.status, win |-> c.win, calls |-> c.calls, val |-> <<>>]
     ELSE IF \E i \in 1..Len(clms) : to_array_check(clms[i], <<"4pi">>, <<1>>, <<L>>) # "ok"
     THEN [status |-> "ValueError", win |-> c.win, calls |-> c.calls, val |-> <<>>]
     ELSE [status |-> "ok", win |-> c.win, calls |-> c.calls \o <<prim>>,
           val |-> MultiTaperEstimate(L, self.lwin)]

\* ret.val = w.multitaperpowerspectrum(s, k, clat=clat, clon=clon,
\* coord_degrees=coord_degrees, lmax=lmax); the mask variant takes no centre
MultiTaper(w, s, k, clat, clon, coord_degrees, lmax) ==
  LET r == multitaper(wins[w], <<objs[s]>>, k, clat, clon, coord_degrees, lmax)
  IN /\ Idle
     /\ wins[w].kind # "none" /\ objs[s].kind # "none"
     /\ wins[w].kind = "mask" => clat = <<>> /\ clon = <<>> /\ coord_degrees
     /\ wins' = [wins EXCEPT ![w] = r.win]
     /\ calls' = r.calls
     /\ ret' = [Raise("multitaperpowerspectrum", r.status, w,
                      <<k, clat, clon, coord_degrees, lmax>>) EXCEPT !.other = s, !.val = r.val]
     /\ UNCHANGED <<heap, objs, grids, writes>>

\* ret.val = w.multitapercrosspowerspectrum(s, t, k, clat=clat, clon=clon,
\* coord_degrees=coord_degrees, lmax=lmax)
MultiTaperCross(w, s, t, k, clat, clon, coord_degrees, lmax) ==
  LET r == multitaper(wins[w], <<objs[s], objs[t]>>, k, clat, clon, coord_degrees, lmax)
  IN /\ Idle
     /\ wins[w].kind # "none" /\ objs[s].kind # "none" /\ objs[t].kind # "none"
     /\ wins[w].kind = "mask" => clat = <<>> /\ clon = <<>> /\ coord_degrees
     /\ wins' = [wins EXCEPT ![w] = r.win]
     /\ calls' = r.calls
     /\ ret' = [Raise("multitapercrosspowerspectrum", r.status, w,
                      <<k, clat, clon, coord_degrees, lmax>>) EXCEPT !.other = s, !.val = r.val]
     /\ UNCHANGED <<heap, objs, grids, writes>>

\* a faulty variant of the slice below, which keeps every row
RowsAll(n, rows) == rows
\* array[:n] on an array of the given number of rows: the number of rows left
RowsTo(n, rows) == IF n >= 0 THEN Min(n, rows) ELSE IF rows + n > 0 THEN rows + n ELSE 0
Modes == {"full", "same", "valid"}
\* SHWindow.couplingmatrix with SHWindowCap._couplingmatrix and SHWindowMask._couplingmatrix:
\* the status, the shape of the matrix returned and the weights handed to the backend
couplingmatrix(self, lmax, nwin, weights, mode) ==
  LET k == Default(nwin, self.nwin)
      full == lmax + self.lwin + 1
      fail(st, cs) == [status |-> st, shape |-> <<>>, taper_wt |-> <<>>, calls |-> cs]
      spectra == [j \in 1..(2 * Min(k, self.tapers.shape[2])) |->
                    IF j % 2 = 1 THEN "SHVectorToCilm" ELSE "SHPowerSpectrum"]
  IN IF weights # <<>> /\ Len(weights[1]) # k THEN fail("ValueError", <<>>)
     ELSE IF mode \notin Modes THEN fail("ValueError", <<>>)
     ELSE IF self.kind = "mask" /\ k > self.tapers.shape[2] THEN fail("IndexError", spectra)
     ELSE [status |-> "ok",
           shape |-> <<IF mode = "full" THEN full
                       ELSE IF mode = "same" THEN RowsTo(lmax + 1, full)
                       ELSE RowsTo(lmax - self.lwin + 1, full), lmax + 1>>,
           taper_wt |-> IF weights = <<>> /\ self.weights = <<>> THEN <<>> ELSE self.weights,
           calls |-> (IF self.kind = "mask" THEN spectra ELSE <<>>) \o <<"SHMTCouplingMatrix">>]

\* ret.val = the shape of w.couplingmatrix(lmax, nwin, weights, mode)
CouplingMatrix(w, lmax, nwin, weights, mode) ==
  LET r == couplingmatrix(wins[w], lmax, nwin, weights, mode)
  IN /\ Idle
     /\ wins[w].kind # "none"
     /\ calls' = r.calls
     /\ ret' = [Raise("couplingmatrix", r.status, w, <<lmax, nwin, weights, mode>>)
                  EXCEPT !.val = r.shape]
     /\ UNCHANGED <<heap, objs, grids, writes, wins>>

(* ----------------------------- the caller ----------------------------- *)
\* the value the caller writes
Poke == <<9, 0>>
\* the arrays the caller can reach: its sources and the array the last call returned
Reachable == ext \cup (IF ret.arr # 0 THEN {ret.arr} ELSE {})
\* a[...] = 9 for an array a the caller holds
CallerWrite(a) ==
  /\ a \in Reachable
  /\ writes < MaxWrites
  /\ writes' = writes + 1
  /\ heap' = [heap EXCEPT ![a].dat = [ix \in DOMAIN heap[a].dat |-> Poke]]
  /\ UNCHANGED <<objs, grids, ret, calls, wins>>

\* s = r: the caller assigns the instance the last call returned to its variable s
Keep(s) ==
  /\ ret.out = "r"
  /\ objs["r"].kind # "none"
  /\ objs[s].kind = "none"
  /\ objs' = [objs EXCEPT ![s] = objs["r"], !["r"] = NoObj]
  /\ ret' = NoRet
  /\ calls' = <<>>
  /\ UNCHANGED <<heap, grids, writes, wins>>
\* the caller is done with the outcome of the last call: the value it returned, unless
\* it was assigned to a variable, is dropped
Forget ==
  /\ ret # NoRet
  /\ ret' = NoRet
  /\ calls' = <<>>
  /\ objs' = DropObjs(objs)
  /\ grids' = DropGrids(grids)
  /\ heap' = Collect(heap, objs', grids', {})
  /\ UNCHANGED <<writes, wins>>

(* ----------------------------- specifications ------------------------- *)
\* the caller holds its source arrays; no instance exists yet
Init ==
  /\ heap = [a \in Addr |-> IF a \in 1..Len(Sources) THEN Sources[a] ELSE NoArr]
  /\ objs = [s \in CoeffVars \cup {"r"} |-> NoObj]
  /\ grids = [s \in GridVars \cup {"r"} |-> NoGrid]
  /\ ret = NoRet
  /\ calls = <<>>
  /\ writes = 0
  /\ wins = [s \in WinVars |-> NoWin]

\* the caller's grid array: every shape up to the one of the largest lmax
GridShapes == (1..(2 * MaxLmax + 2)) \X (1..(4 * MaxLmax + 4))
InputGrid(dtype, nlat, nlon) ==
  [dtype |-> dtype, shape |-> <<nlat, nlon>>,
   dat |-> [ix \in Idx2(nlat, nlon) |->
              LET k == 1 + ix[1] + nlat * ix[2]
              IN <<k % Modulus, IF dtype = "complex" THEN (3 * k + 1) % Modulus ELSE 0>>]]
\* the caller holds its coefficient arrays and one grid array
InitGrid ==
  /\ \E shape \in GridShapes, dtype \in Kinds :
       heap = [a \in Addr |-> IF a \in 1..Len(Sources) THEN Sources[a]
                              ELSE IF a = Len(Sources) + 1 THEN InputGrid(dtype, shape[1], shape[2])
                              ELSE NoArr]
  /\ objs = [s \in CoeffVars \cup {"r"} |-> NoObj]
  /\ grids = [s \in GridVars \cup {"r"} |-> NoGrid]
  /\ ret = NoRet
  /\ calls = <<>>
  /\ writes = 0
  /\ wins = [s \in WinVars |-> NoWin]

\* the factories, building the variable s with arguments of the sets K, N and C
Factories(s, K, N, C) ==
  \/ \E lmax \in 0..MaxLmax, kind \in K, normalization \in N, csphase \in C :
       FromZeros(s, lmax, kind, normalization, csphase)
  \/ \E a \in ext, normalization \in N, csphase \in C, copy \in BOOLEAN :
       FromArray(s, a, normalization, csphase, copy)

NextConv ==
  \/ Forget
  \/ Factories("x", KindArgs, NormArgs, CsArgs)
  \/ \E normalization \in Opt(NormArgs), csphase \in Opt(CsArgs), lmax \in Opt(0..(MaxLmax + 1)) :
       ToArray("x", normalization, csphase, lmax)
  \/ \E normalization \in Opt(NormArgs), csphase \in Opt(CsArgs), lmax \in Opt(0..(MaxLmax + 1)),
        kind \in Opt(Kinds \cup {"bogus"}), check \in BOOLEAN :
       Convert("x", normalization, csphase, lmax, kind, check)
SpecConv == Init /\ [][NextConv]_vars
\* two instances and the operators between them
NextArith ==
  \/ Forget
  \/ \E s \in CoeffVars : Factories(s, Kinds, {"4pi", "Ortho"}, {1, -1})
  \/ \E op \in Operators, s \in CoeffVars, t \in CoeffVars : Binary(op, s, t)
  \/ \E op \in Operators \cup {"pow"}, v \in {0, 2} : Scalar(op, "x", v)
  \/ \E op \in Operators \cup {"pow"} : Unsupported(op, "x")
SpecArith == Init /\ [][NextArith]_vars

\* the arguments of set_coeffs: the lists of one pair (l, m) and the lists of two pairs
\* with the orders m and -m
Pairs == (0..MaxLmax) \X ((0 - MaxLmax)..MaxLmax)
ItemLists == {<<<<9, q[1], q[2]>>>> : q \in Pairs}
               \cup {<<<<9, q[1], q[2]>>, <<10, q[1], 0 - q[2]>>>> : q \in Pairs}

\* every operation of SHCoeffs on the instance x, with a second instance y as operand
Next ==
  \/ Forget
  \/ Factories("x", Kinds, {"4pi", "Ortho"}, {1, -1})
  \/ \E a \in ext, copy \in BOOLEAN : FromArray("y", a, "4pi", 1, copy)
  \/ \E op \in Operators, t \in CoeffVars : Binary(op, "x", t)
  \/ \E op \in Operators \cup {"pow"} : Scalar(op, "x", 2)
  \/ \E normalization \in Opt({"schmidt"}), csphase \in Opt({-1}), lmax \in Opt({0}) :
       \/ ToArray("x", normalization, csphase, lmax)
       \/ \E kind \in {<<>>, <<"complex">>} : Convert("x", normalization, csphase, lmax, kind, TRUE)
  \/ \E alpha \in {0, 180} : Rotate("x", alpha)
  \/ \E convention \in Conventions, unit \in Units : Spectrum("x", convention, unit)
  \/ \E items \in ItemLists : SetCoeffs("x", items)
  \/ \E a \in Reachable : CallerWrite(a)
Spec == Init /\ [][Next]_vars

\* set_coeffs on an instance and the arrays to_array returns for it
NextSet ==
  \/ Forget
  \/ Factories("x", Kinds, {"4pi", "Ortho"}, {1, -1})
  \/ \E items \in ItemLists : SetCoeffs("x", items)
  \/ \E lmax \in Opt({0}) : ToArray("x", <<>>, <<>>, lmax)
SpecSet == Init /\ [][NextSet]_vars

\* the spectra of an instance
NextSpectrum ==
  \/ Forget
  \/ Factories("x", Kinds, NormArgs, {1, -1})
  \/ \E convention \in Conventions \cup {"Power", "bogus"}, unit \in Units \cup {"Per_lm", "bogus"} :
       Spectrum("x", convention, unit)
SpecSpectrum == Init /\ [][NextSpectrum]_vars

\* the instances built from the caller's arrays, the accessors that return an array, and
\* the caller's writes to the arrays it holds
NextOwn ==
  \/ Forget
  \/ \E a \in ext, copy \in BOOLEAN : FromArray("x", a, "4pi", 1, copy)
  \/ \E a \in ext, grid \in GridArgs, copy \in BOOLEAN : GridFromArray("g", a, grid, copy)
  \/ \E lmax \in Opt({0}) : ToArray("x", <<>>, <<>>, lmax)
  \/ ToGrid("g")
  \/ \E a \in Reachable : CallerWrite(a)
SpecOwn == InitGrid /\ [][NextOwn]_vars

\* the arguments of the SHWindow calls: the radius of the cap in degrees, the centres
\* (clat, clon, coord_degrees) at a pole, the weights and the shapes of dh_mask
ThetaArgs == {30}
Centres == {<<Ninety, FZero, TRUE>>, <<Ninety, <<2, 0>>, TRUE>>,
            <<HalfPi, FZero, FALSE>>, <<HalfPi, <<0, 2>>, FALSE>>}
Weights(n) == [i \in 1..n |-> Real(i)]
WeightArgs == Opt({Weights(2)})
MaskShapes == {<<2, 2>>, <<2, 4>>, <<2, 3>>, <<3, 3>>}
Tapers(lwin) == (lwin + 1) * (lwin + 1)

\* the window factories: a cap with or without a centre, and a mask
WinFactories(w, W) ==
  \/ \E theta \in ThetaArgs, lwin \in 0..MaxLwin, weights \in W :
       \E nwin \in Opt(1..(Tapers(lwin) + 1)) :
         \/ FromCap(w, theta, lwin, <<>>, <<>>, nwin, TRUE, weights)
         \/ \E c \in Centres : FromCap(w, theta, lwin, <<c[1]>>, <<c[2]>>, nwin, c[3], weights)
         \/ FromCap(w, theta, lwin, <<Ninety>>, <<>>, nwin, TRUE, weights)
  \/ \E shape \in MaskShapes, lwin \in 0..MaxLwin, weights \in W :
       \E nwin \in Opt(1..(Tapers(lwin) + 1)) : FromMask(w, shape, lwin, nwin, weights)

\* the tapers of a window as arrays and as instances
NextWinArray ==
  \/ Forget
  \/ WinFactories("w", {<<>>})
  \/ \E c \in Centres, nwinrot \in Opt(0..(Tapers(MaxLwin) + 1)) :
       WinRotate("w", c[1], c[2], c[3], nwinrot)
  \/ \E itaper \in 0..Tapers(MaxLwin), normalization \in NormArgs, csphase \in CsArgs :
       \/ WinToArray("w", itaper, normalization, csphase)
       \/ ReturnCoeffs("w", itaper, normalization, csphase)
SpecWinArray == Init /\ [][NextWinArray]_vars

\* rotations of an instance of every normalization and csphase
NextRotate ==
  \/ Forget
  \/ Factories("x", Kinds, Normalizations, {1, -1})
  \/ \E alpha \in {0, 180} : Rotate("x", alpha)
SpecRotate == Init /\ [][NextRotate]_vars

\* conversions between the kinds: x is built and converted, the instance returned is
\* kept as y and converted in turn
NextKind ==
  \/ Forget
  \/ Factories("x", Kinds, Normalizations, {1, -1})
  \/ \E items \in ItemLists : SetCoeffs("x", items)
  \/ \E normalization \in Opt({"schmidt"}), csphase \in Opt({-1}), kind \in Opt(Kinds),
        check \in BOOLEAN : Convert("x", normalization, csphase, <<>>, kind, check)
  \/ Keep("y")
  \/ \E kind \in Opt(Kinds), check \in BOOLEAN : Convert("y", <<>>, <<>>, <<>>, kind, check)
SpecKind == Init /\ [][NextKind]_vars

\* the construction of a grid from the caller's array of any shape
NextGrid ==
  \/ Forget
  \/ \E a \in ext, grid \in GridArgs, copy \in BOOLEAN : GridFromArray("g", a, grid, copy)
SpecGrid == InitGrid /\ [][NextGrid]_vars

\* the numbers of tapers asked for: some, and one more than a window of lwin MaxLwin has
TaperCounts == {1, 2, Tapers(MaxLwin) + 1}
\* every operation of SHWindow on the window w, with the instances x and y to analyse
NextWin ==
  \/ Forget
  \/ WinFactories("w", WeightArgs)
  \/ \E s \in CoeffVars, lmax \in 0..MaxLmax : FromZeros(s, lmax, "real", "4pi", 1)
  \/ \E c \in Centres, nwinrot \in Opt(TaperCounts) : WinRotate("w", c[1], c[2], c[3], nwinrot)
  \/ \E itaper \in {0, 1}, normalization \in {"4pi", "bogus"} :
       \/ WinToArray("w", itaper, normalization, 1)
       \/ ReturnCoeffs("w", itaper, normalization, 1)
  \/ \E k \in TaperCounts, lmax \in Opt({MaxLmax + 1}) :
       \/ MultiTaper("w", "x", k, <<>>, <<>>, TRUE, lmax)
       \/ MultiTaper("w", "x", k, <<Ninety>>, <<>>, TRUE, lmax)
       \/ MultiTaperCross("w", "x", "y", k, <<>>, <<>>, TRUE, lmax)
       \/ \E c \in Centres :
            \/ MultiTaper("w", "x", k, <<c[1]>>, <<c[2]>>, c[3], lmax)
            \/ MultiTaperCross("w", "x", "y", k, <<c[1]>>, <<c[2]>>, c[3], lmax)
  \/ \E nwin \in Opt(TaperCounts), weights \in WeightArgs, mode \in Modes \cup {"bogus"} :
       CouplingMatrix("w", MaxLmax, nwin, weights, mode)
SpecWin == Init /\ [][NextWin]_vars

\* the coupling matrices of cap windows of lwin up to MaxLwin + 1 and of mask windows,
\* with and without stored weights
NextCoupling ==
  \/ Forget
  \/ WinFactories("w", WeightArgs)
  \/ \E nwin \in Opt({2}), weights \in WeightArgs :
       FromCap("w", 30, MaxLwin + 1, <<>>, <<>>, nwin, TRUE, weights)
  \/ \E lmax \in 0..(MaxLmax + 1), nwin \in Opt(TaperCounts),
        weights \in Opt({Weights(1), Weights(2)}), mode \in Modes \cup {"bogus"} :
       CouplingMatrix("w", lmax, nwin, weights, mode)
SpecCoupling == Init /\ [][NextCoupling]_vars

\* the factories of SHCoeffs and SHGrid with every spelling of the kind and of the grid
NextFactory ==
  \/ Forget
  \/ Factories("x", KindArgs, {"4pi", "bogus"}, {1})
  \/ \E a \in ext, grid \in GridArgs, copy \in BOOLEAN : GridFromArray("g", a, grid, copy)
SpecFactory == InitGrid /\ [][NextFactory]_vars

(* ------------------------------ properties --------------------------- *)
\* the entries of the array at a outside the mask of an instance of that size are zero
ZeroOutside(a) ==
  \A ix \in Idx(heap[a].shape[2]) \ MakeMask(heap[a].shape[2] - 1) : heap[a].dat[ix] = Zero
Returned(op) == ret.op = op /\ ret.status = "ok"

\* C1: every instance that from_zeros, from_array(copy=True) or convert (also real to
\* complex and complex to real) produces, and every array that to_array returns for
\* such an instance, is zero at every index outside the mask.
C1_ZeroOutsideMask ==
  /\ \A s \in CoeffVars : objs[s].kind # "none" /\ objs[s].copy => ZeroOutside(objs[s].coeffs)
  /\ Returned("convert") /\ objs[ret.self].copy => ZeroOutside(objs["r"].coeffs)
  /\ Returned("to_array") /\ objs[ret.self].copy => ZeroOutside(ret.arr)

\* C2: add, subtract, reverse-subtract, multiply and divide between two instances raise
\* the incompatibility error (ValueError) and return nothing whenever the operands differ
\* in normalization, csphase or kind; a result is returned only when all three match.
C2_IncompatibleOperands ==
  ret.op \in {"add", "sub", "rsub", "mul", "div"} /\ ret.other # "" =>
    LET a == objs[ret.self]
        b == objs[ret.other]
        differ == a.normalization # b.normalization \/ a.csphase # b.csphase \/ a.kind # b.kind
    IN /\ differ => ret.status = "ValueError" /\ ret.out = "" /\ objs["r"] = NoObj
       /\ ret.status = "ok" => ~differ /\ ret.out = "r" /\ objs["r"].kind # "none"
\* a division of a real by a complex instance of the same normalization and csphase was refused
C2_Witness ==
  /\ ret.op = "div" /\ ret.status = "ValueError" /\ ret.self = "x" /\ ret.other = "y"
  /\ objs["x"].kind = "real" /\ objs["y"].kind = "complex"
  /\ objs["x"].normalization = objs["y"].normalization
  /\ objs["x"].csphase = objs["y"].csphase

\* C3: no arithmetic operator, and none of to_array, convert, rotate and spectrum, changes
\* the coefficients, mask, lmax, normalization, csphase or kind of the instance it is called
\* on or of the other operand: every call on an instance other than set_coeffs, whether it
\* returns or raises, leaves every instance of the caller and its array as they were.
C3_CallsDoNotMutate ==
  [][ret = NoRet /\ ret'.self # "" /\ ret'.op # "set_coeffs" =>
       \A s \in CoeffVars :
         /\ objs'[s] = objs[s]
         /\ objs[s].kind # "none" => heap'[objs[s].coeffs] = heap[objs[s].coeffs]]_vars
\* x ** 2 returned a new instance for an x that set_coeffs had changed before
C3_Witness ==
  /\ Returned("pow") /\ ret.self = "x" /\ writes > 0
  /\ objs["r"].coeffs # objs["x"].coeffs
  /\ heap[objs["r"].coeffs] # heap[objs["x"].coeffs]

\* C4: for an instance built with copy=True, no write by the caller to the source array or
\* to an array that an accessor (SHCoeffs.to_array, SHGrid.to_grid) handed back changes the
\* data stored in the instance.
C4_CopiesAreIsolated ==
  [][ret' = ret /\ writes' = writes + 1 =>
       /\ \A s \in CoeffVars :
            objs[s].kind # "none" /\ objs[s].copy => heap'[objs[s].coeffs] = heap[objs[s].coeffs]
       /\ \A s \in GridVars :
            grids[s].kind # "none" /\ grids[s].copy => heap'[grids[s].data] = heap[grids[s].data]]_vars

\* C5: converting an instance to another convention (normalization', csphase') and the
\* result back to its own (normalization, csphase) gives the original coefficients, for
\* real and complex instances and every lmax; flipping csphase twice is the identity.
C5_ConventionRoundTrip ==
  Returned("convert") /\ objs["r"].kind = objs[ret.self].kind =>
    LET x == objs[ret.self]
        r == objs["r"]
        back == convert(r, heap, <<x.normalization>>, <<x.csphase>>, <<>>, <<>>, TRUE)
    IN /\ back.status = "ok"
       /\ back.obj.normalization = x.normalization /\ back.obj.csphase = x.csphase
       /\ \A ix \in Idx(r.lmax + 1) :
            back.heap[back.obj.coeffs].dat[ix] = heap[x.coeffs].dat[ix]
\* an instance of lmax MaxLmax with non-zero coefficients was converted from 'schmidt' to
\* 'ortho' with the other csphase
C5_Witness ==
  /\ Returned("convert") /\ objs["r"].kind = objs[ret.self].kind
  /\ objs[ret.self].normalization = "schmidt" /\ objs["r"].normalization = "ortho"
  /\ objs["r"].csphase # objs[ret.self].csphase
  /\ objs["r"].lmax = MaxLmax
  /\ heap[objs["r"].coeffs].dat[<<1, 1, 1>>] \notin {Zero, heap[objs[ret.self].coeffs].dat[<<1, 1, 1>>]}

\* the factor that takes a 4pi-normalized coefficient of degree l to the normalization n
FromFourPi(n, l) == IF n = "schmidt" THEN SqrtOdd(l) ELSE IF n = "ortho" THEN SqrtFourPi ELSE 1

\* the value set_coeffs(items) leaves at the index ix of an array that held old there
Written(ix, items, old) ==
  LET hits == {i \in 1..Len(items) :
                 /\ items[i][2] = ix[2]
                 /\ \/ items[i][3] >= 0 /\ ix[1] = 0 /\ ix[3] = items[i][3]
                    \/ items[i][3] < 0 /\ ix[1] = 1 /\ ix[3] = 0 - items[i][3]}
  IN IF hits = {} THEN old
     ELSE <<items[CHOOSE i \in hits : \A j \in hits : j <= i][1], 0>>

\* C6: set_coeffs(values, ls, ms) writes each value at (0, l, m) when m >= 0 and at
\* (1, l, |m|) when m < 0 and leaves every other coefficient as it was; on an instance made
\* by from_zeros a following to_array() shows the written values and zero elsewhere.
C6_SetCoeffs ==
  [][/\ ret = NoRet /\ ret'.op = "set_coeffs" /\ ret'.status = "ok" =>
          LET a == objs[ret'.self].coeffs
          IN \A ix \in DOMAIN heap[a].dat :
               heap'[a].dat[ix] = Written(ix, ret'.args, heap[a].dat[ix])
     /\ /\ ret = NoRet /\ ret'.op = "to_array" /\ ret'.status = "ok"
        /\ ret'.args = <<<<>>, <<>>, <<>>>>
        /\ objs[ret'.self].origin = "from_zeros" /\ Len(objs[ret'.self].sets) = 1
        => \A ix \in DOMAIN heap'[ret'.arr].dat :
             heap'[ret'.arr].dat[ix] = Written(ix, objs[ret'.self].sets[1], Zero)]_vars
\* set_coeffs([9, 10], [1, 1], [1, -1]) on an instance made by from_zeros, and the to_array()
\* after it, which shows 9 at (0, 1, 1) and 10 at (1, 1, 1)
C6_Witness ==
  /\ Returned("to_array") /\ ret.args = <<<<>>, <<>>, <<>>>>
  /\ objs[ret.self].origin = "from_zeros"
  /\ objs[ret.self].sets = <<<<<<9, 1, 1>>, <<10, 1, -1>>>>>>
  /\ heap[ret.arr].dat[<<0, 1, 1>>] = <<9, 0>>
  /\ heap[ret.arr].dat[<<1, 1, 1>>] = <<10, 0>>

\* C7: to_array(lmax=L) raises an error when L exceeds the lmax of the instance; for every
\* L it accepts it returns a new array of shape (2, L+1, L+1) whose coefficients of degree
\* l <= L and order m <= l are those of the instance in the requested convention; without
\* arguments it returns the coefficients in the instance's own normalization, csphase, lmax.
C7_ToArray ==
  ret.op = "to_array" =>
    LET x == objs[ret.self]
        n == lower(Default(ret.args[1], x.normalization))
        c == Default(ret.args[2], x.csphase)
        L == Default(ret.args[3], x.lmax)
        valid == n \in Normalizations /\ c \in {1, -1}
    IN /\ L > x.lmax => ret.status = "ValueError" /\ ret.arr = 0
       /\ valid /\ L <= x.lmax => ret.status = "ok"
       /\ ret.status = "ok" =>
            /\ ret.arr # x.coeffs
            /\ heap[ret.arr].shape = <<2, L + 1, L + 1>>
            /\ \A ix \in MakeMask(L) :
                 Scale(heap[ret.arr].dat[ix], FromFourPi(x.normalization, ix[2])) =
                   Scale(IF c # x.csphase /\ ix[3] % 2 = 1 THEN CNeg(heap[x.coeffs].dat[ix])
                         ELSE heap[x.coeffs].dat[ix],
                         FromFourPi(n, ix[2]))
            /\ ret.args = <<<<>>, <<>>, <<>>>> => heap[ret.arr] = heap[x.coeffs]
\* to_array(normalization='schmidt', csphase=-1, lmax=0) returned the degree 0 of a
\* 4pi-normalized instance of lmax 1 and csphase 1
C7_Witness ==
  /\ Returned("to_array") /\ ret.args = <<<<"schmidt">>, <<-1>>, <<0>>>>
  /\ objs[ret.self].lmax = 1 /\ objs[ret.self].normalization = "4pi" /\ objs[ret.self].csphase = 1
  /\ heap[ret.arr].shape = <<2, 1, 1>>
  /\ heap[ret.arr].dat[<<0, 0, 0>>] # Zero

\* C10: convert with a kind other than 'real' and 'complex' raises the invalid-value error
\* (ValueError) and returns no instance, for a real and for a complex source; with a valid
\* kind the instance returned has the requested kind, normalization, csphase and lmax.
C10_ConvertKind ==
  ret.op = "convert" =>
    LET x == objs[ret.self]
        k == ret.args[4]
    IN /\ k # <<>> /\ k[1] \notin Kinds => ret.status = "ValueError" /\ ret.out = ""
       /\ ret.status = "ok" =>
            /\ objs["r"].kind = Default(k, x.kind)
            /\ objs["r"].normalization = lower(Default(ret.args[1], x.normalization))
            /\ objs["r"].csphase = Default(ret.args[2], x.csphase)
            /\ objs["r"].lmax = Default(ret.args[3], x.lmax)
\* C8: for every instance and every degree l, spectrum('power', 'per_lm')[l] is
\* spectrum('power', 'per_l')[l] / (2l+1), and spectrum('energy', u)[l] is
\* 4 pi spectrum('power', u)[l] for every unit u.
C8_SpectrumScalings ==
  Returned("spectrum") =>
    LET x == objs[ret.self]
        c == lower(ret.args[1])
        u == lower(ret.args[2])
    IN /\ c = "power" /\ u = "per_lm" =>
            \A i \in 1..(x.lmax + 1) :
              Scale(ret.val[i], 2 * (i - 1) + 1) = spectrum(x, heap, "power", "per_l").val[i]
       /\ c = "energy" =>
            \A i \in 1..(x.lmax + 1) :
              ret.val[i] = Scale(spectrum(x, heap, "power", u).val[i], FourPi)
\* the energy per coefficient of a Schmidt semi-normalized instance with non-zero
\* coefficients of degree 1
C8_Witness ==
  /\ Returned("spectrum") /\ ret.args = <<"energy", "per_lm">>
  /\ objs[ret.self].normalization = "schmidt" /\ objs[ret.self].lmax = 1
  /\ ret.val[2] # Zero
  /\ ret.val[2] # spectrum(objs[ret.self], heap, "power", "per_lm").val[2]

\* C9: spectrum with a convention other than 'power', 'energy', 'l2norm' or a unit other
\* than 'per_l', 'per_lm', 'per_dlogl' raises the invalid-value error before the backend
\* power-spectrum primitive is called; with valid arguments the result has lmax+1 entries.
C9_SpectrumArguments ==
  ret.op = "spectrum" =>
    IF lower(ret.args[1]) \notin Conventions \/ lower(ret.args[2]) \notin Units
    THEN ret.status = "ValueError" /\ calls = <<>>
    ELSE ret.status = "ok" /\ Len(ret.val) = objs[ret.self].lmax + 1

\* C11: to_array and return_coeffs of a window called with a normalization other than
\* '4pi', 'ortho' and 'schmidt' raise the invalid-value error (ValueError) that
\* SHCoeffs.to_array raises for such a normalization, and no other error.
C11_WindowNormalization ==
  ret.op \in {"SHWindow.to_array", "return_coeffs"} /\ lower(ret.args[2]) \notin Normalizations
    => ret.status = "ValueError"

\* C12: rotate(0, 0, 0) on a real instance of any normalization ('4pi', 'ortho',
\* 'schmidt') and any csphase (1, -1) returns a new instance with the normalization and
\* the csphase of the instance and with coefficients equal to those of the instance.
C12_RotateByZero ==
  ret.op = "rotate" /\ ret.args = <<0>> /\ objs[ret.self].kind = "real" =>
    LET x == objs[ret.self]
    IN /\ ret.status = "ok"
       /\ objs["r"].coeffs # x.coeffs
       /\ objs["r"].normalization = x.normalization
       /\ objs["r"].csphase = x.csphase
       /\ \A ix \in MakeMask(x.lmax) : heap[objs["r"].coeffs].dat[ix] = heap[x.coeffs].dat[ix]
\* C13: for every real instance x, y = x.convert(kind='complex') followed by
\* y.convert(kind='real', check=True) does not raise the error of a field that is not
\* real, and returns a real instance with the normalization, the csphase and the
\* coefficients of x.
C13_RealComplexReal ==
  LET x == objs["x"]
      y == objs["y"]
      c == convert(x, heap, <<>>, <<>>, <<>>, <<"complex">>, TRUE)
  IN /\ ret.op = "convert" /\ ret.self = "y" /\ ret.args = <<<<>>, <<>>, <<>>, <<"real">>, TRUE>>
     /\ x.kind = "real" /\ y.kind = "complex"
     /\ y.normalization = x.normalization /\ y.csphase = x.csphase /\ y.lmax = x.lmax
     /\ heap[y.coeffs] = c.heap[c.obj.coeffs]
     => /\ ret.status = "ok"
        /\ objs["r"].kind = "real"
        /\ objs["r"].normalization = x.normalization
        /\ objs["r"].csphase = x.csphase
        /\ objs["r"].lmax = x.lmax
        /\ \A ix \in MakeMask(x.lmax) : heap[objs["r"].coeffs].dat[ix] = heap[x.coeffs].dat[ix]
\* the round trip of an orthonormalized instance of csphase -1 with a non-zero sine
\* coefficient of degree and order 1
C13_Witness ==
  LET x == objs["x"]
  IN /\ Returned("convert") /\ ret.self = "y" /\ ret.args = <<<<>>, <<>>, <<>>, <<"real">>, TRUE>>
     /\ x.kind = "real" /\ x.normalization = "ortho" /\ x.csphase = -1 /\ x.lmax = 1
     /\ heap[objs["y"].coeffs] = convert(x, heap, <<>>, <<>>, <<>>, <<"complex">>, TRUE).heap[
                                   convert(x, heap, <<>>, <<>>, <<>>, <<"complex">>, TRUE).obj.coeffs]
     /\ heap[x.coeffs].dat[<<1, 1, 1>>] # Zero
     /\ heap[objs["r"].coeffs].dat[<<1, 1, 1>>] = heap[x.coeffs].dat[<<1, 1, 1>>]
     /\ heap[objs["y"].coeffs].dat[<<0, 1, 1>>][2] # 0
\* C14: convert(kind='real', check=True) on a complex instance raises the error of a field
\* that is not real (RuntimeError) exactly when some c(l,0) differs from its conjugate or
\* some c(l,m), m > 0, differs from (-1)^m conj(c(l,-m)); with check=False it never raises
\* that error; in both cases the instance converted is left as it was.
C14_RealFieldCheck ==
  [][ret.op = "" /\ ret'.op = "convert" /\ objs[ret'.self].kind = "complex"
     /\ ret'.args[4] = <<"real">>
     => LET x == objs[ret'.self]
            c(l, m) == heap[x.coeffs].dat[<<IF m < 0 THEN 1 ELSE 0, l, IF m < 0 THEN 0 - m ELSE m>>]
            differs == \E l \in 0..x.lmax :
                         \/ c(l, 0) # Conj(c(l, 0))
                         \/ \E m \in 1..l :
                              c(l, m) # (IF m % 2 = 0 THEN Conj(c(l, 0 - m))
                                         ELSE CNeg(Conj(c(l, 0 - m))))
        IN /\ ret'.status = "RuntimeError" <=> ret'.args[5] /\ differs
           /\ ret'.status \in {"RuntimeError", "ok"}
           /\ objs'[ret'.self] = x
           /\ heap'[x.coeffs] = heap[x.coeffs]]_vars
\* the error for a complex instance whose only non-zero coefficient is c(1,1)
C14_Witness ==
  /\ ret.op = "convert" /\ ret.status = "RuntimeError" /\ ret.out = ""
  /\ ret.args = <<<<>>, <<>>, <<>>, <<"real">>, TRUE>>
  /\ objs[ret.self].kind = "complex" /\ objs[ret.self].lmax = 1
  /\ objs[ret.self].sets = <<<<<<9, 1, 1>>>>>>
  /\ heap[objs[ret.self].coeffs].dat[<<0, 1, 1>>] # Zero
  /\ heap[objs[ret.self].coeffs].dat[<<1, 1, 1>>] = Zero
  /\ heap[objs[ret.self].coeffs].dat[<<0, 1, 0>>] = Zero
\* C15: SHGrid.from_array of an array of shape (nlat, nlon) returns an instance for the
\* grid 'DH' exactly when nlat is even and nlon is nlat or 2 nlat, with lmax = nlat/2 - 1
\* and sampling 1 or 2, and for the grid 'GLQ' exactly when nlon = 2 nlat - 1, with
\* lmax = nlat - 1; every other shape raises ValueError, for real and for complex arrays.
C15_GridShape ==
  ret.op = "SHGrid.from_array" /\ ret.args[2] \in {"DH", "GLQ"} =>
    LET array == heap[ret.args[1]]
        nlat == array.shape[1]
        nlon == array.shape[2]
        fits == IF ret.args[2] = "DH" THEN nlat % 2 = 0 /\ nlon \in {nlat, 2 * nlat}
                ELSE nlon = 2 * nlat - 1
    IN IF fits
       THEN /\ ret.status = "ok"
            /\ grids[ret.out].grid = ret.args[2]
            /\ grids[ret.out].kind = array.dtype
            /\ grids[ret.out].nlat = nlat /\ grids[ret.out].nlon = nlon
            /\ ret.args[2] = "DH" =>
                 /\ 2 * (grids[ret.out].lmax + 1) = nlat
                 /\ grids[ret.out].sampling * nlat = nlon
            /\ ret.args[2] = "GLQ" => grids[ret.out].lmax = nlat - 1
       ELSE /\ ret.status = "ValueError"
            /\ ret.out = ""
            /\ \A s \in GridVars : grids[s].kind = "none"
\* a complex array of shape (4, 8) made a DH grid of lmax 1 and sampling 2
C15_Witness ==
  /\ Returned("SHGrid.from_array") /\ ret.args[2] = "DH"
  /\ heap[ret.args[1]].shape = <<4, 8>> /\ heap[ret.args[1]].dtype = "complex"
  /\ grids["g"].kind = "complex" /\ grids["g"].lmax = 1 /\ grids["g"].sampling = 2
\* C16: every window that exists has nwin <= (lwin+1)^2: from_cap and from_mask called
\* with an nwin above (lwin+1)^2 raise an error and yield no instance, and no later call
\* (rotate, to_array, return_coeffs, the multitaper estimates, couplingmatrix) changes
\* nwin or lwin.
C16_WindowCount ==
  /\ [](/\ \A w \in WinVars :
             wins[w].kind # "none" => wins[w].nwin <= (wins[w].lwin + 1) * (wins[w].lwin + 1)
        /\ ret.op = "from_cap" /\ ret.args[5] # <<>>
             /\ ret.args[5][1] > (ret.args[2] + 1) * (ret.args[2] + 1)
             => ret.status = "ValueError" /\ ret.out = "" /\ \A w \in WinVars : wins[w].kind = "none"
        /\ ret.op = "from_mask" /\ ret.args[3] # <<>>
             /\ ret.args[3][1] > (ret.args[2] + 1) * (ret.args[2] + 1)
             => ret.status = "ValueError" /\ ret.out = "" /\ \A w \in WinVars : wins[w].kind = "none")
  /\ [][\A w \in WinVars :
          wins[w].kind # "none" =>
            wins'[w].nwin = wins[w].nwin /\ wins'[w].lwin = wins[w].lwin]_vars
\* a cap window of lwin 1 with two of its four tapers, after a rotation
C16_Witness ==
  /\ ret.op = "SHWindow.rotate" /\ ret.status = "ok"
  /\ wins["w"].kind = "cap" /\ wins["w"].lwin = 1 /\ wins["w"].nwin = 2
  /\ wins["w"].nwinrot = <<2>> /\ wins["w"].tapers.shape = <<2, 2>>
C18_WindowFrame ==
  [][\A w \in WinVars :
       wins[w].kind # "none" =>
         /\ wins'[w].kind = wins[w].kind
         /\ wins'[w].tapers = wins[w].tapers
         /\ wins'[w].eigenvalues = wins[w].eigenvalues
         /\ wins'[w].orders = wins[w].orders
         /\ wins'[w].lwin = wins[w].lwin
         /\ wins'[w].nwin = wins[w].nwin
         /\ wins'[w].theta = wins[w].theta
         /\ wins'[w].weights = wins[w].weights
         /\ \/ /\ wins'[w].coeffs = wins[w].coeffs
               /\ wins'[w].clat = wins[w].clat /\ wins'[w].clon = wins[w].clon
               /\ wins'[w].coord_degrees = wins[w].coord_degrees
               /\ wins'[w].nwinrot = wins[w].nwinrot
            \/ /\ ret'.op \in {"SHWindow.rotate", "multitaperpowerspectrum",
                               "multitapercrosspowerspectrum"}
               /\ ret'.self = w
               /\ \E j \in 1..Len(calls') : calls'[j] = "SHWindowCap.rotate"]_vars
\* a weighted cap window of lwin 1 whose stored coefficients a multitaper estimate
\* replaced by those of a rotation to another centre
C18_Witness ==
  /\ Returned("multitaperpowerspectrum")
  /\ \E j \in 1..Len(calls) : calls[j] = "SHWindowCap.rotate"
  /\ wins[ret.self].kind = "cap" /\ wins[ret.self].lwin = 1 /\ wins[ret.self].nwin = 2
  /\ wins[ret.self].weights = <<Weights(2)>>
  /\ wins[ret.self].clon = <<<<2, 0>>>> /\ wins[ret.self].nwinrot = <<2>>
  /\ wins[ret.self].coeffs[1].dat[<<3, 1>>] # Zero
\* C19: whenever multitaperpowerspectrum or multitapercrosspowerspectrum with k tapers on
\* a cap window reaches the backend estimate, the window holds at least k rotated tapers
\* (nwinrot >= k) centred at the clat and clon requested, in the unit requested, or, when
\* no centre is requested, at the centre the window had, or at the pole (90, 0) in degrees
\* when it had none; a call giving one of clat and clon only on a window without a centre
\* raises an error.
C19_TapersCentred ==
  [][ret'.op \in {"multitaperpowerspectrum", "multitapercrosspowerspectrum"}
     /\ wins[ret'.self].kind = "cap"
     => LET self == wins[ret'.self]
            after == wins'[ret'.self]
            k == ret'.args[1]
            clat == ret'.args[2]
            clon == ret'.args[3]
            coord_degrees == ret'.args[4]
            centred(c1, c2, deg) ==
              after.clat = c1 /\ after.clon = c2 /\ after.coord_degrees = deg
        IN /\ (\E j \in 1..Len(calls') :
                 calls'[j] \in {"SHMultiTaperMaskSE", "SHMultiTaperMaskCSE"})
              => /\ after.coeffs # <<>>
                 /\ after.nwinrot # <<>> /\ after.nwinrot[1] >= k
                 /\ clat # <<>> /\ clon # <<>> => centred(clat, clon, coord_degrees)
                 /\ clat = <<>> /\ clon = <<>> =>
                      IF self.clat # <<>> /\ self.clon # <<>>
                      THEN centred(self.clat, self.clon, self.coord_degrees)
                      ELSE centred(<<Ninety>>, <<FZero>>, TRUE)
           /\ (clat = <<>>) # (clon = <<>>) /\ self.clat = <<>> /\ self.clon = <<>>
              => ret'.status = "ValueError"]_vars
\* C20: every call on a window that raises an error (rotate with nwinrot above nwin,
\* multitaperpowerspectrum and multitapercrosspowerspectrum with k above nwin or with an
\* lmax above that of the instance analysed) leaves clat, clon, coord_degrees, nwinrot and
\* the stored rotated coefficients of the window as they were before the call.
C20_FailedCallsLeaveWindow ==
  [][ret'.op \in {"SHWindow.rotate", "multitaperpowerspectrum", "multitapercrosspowerspectrum"}
     /\ ret'.status # "ok"
     => LET self == wins[ret'.self]
            after == wins'[ret'.self]
        IN /\ after.clat = self.clat
           /\ after.clon = self.clon
           /\ after.coord_degrees = self.coord_degrees
           /\ after.nwinrot = self.nwinrot
           /\ after.coeffs = self.coeffs]_vars
C22_WeightsLength ==
  ret.op = "couplingmatrix" =>
    LET self == wins[ret.self]
        nwin == Default(ret.args[2], self.nwin)
        weights == IF ret.args[3] # <<>> THEN ret.args[3] ELSE self.weights
    IN weights # <<>> /\ Len(weights[1]) # nwin => ret.status = "ValueError" /\ calls = <<>>
\* C23: couplingmatrix hands the backend the weights of its weights argument when one is
\* given, the weights stored in the window when none is given, and no weights when there
\* are neither, for a cap and for a mask window.
C23_WeightsHanded ==
  ret.op = "couplingmatrix" /\ ret.status = "ok" =>
    LET self == wins[ret.self]
        r == couplingmatrix(self, ret.args[1], ret.args[2], ret.args[3], ret.args[4])
    IN r.taper_wt = (IF ret.args[3] # <<>> THEN ret.args[3] ELSE self.weights)
\* C24: a factory call whose kind (and, for a grid, whose grid) passes the tests of the
\* factory returns an instance of exactly that kind and grid; no factory call completes
\* without either raising an error or returning an instance.
C24_FactoryResolves ==
  /\ ret.op \in {"from_zeros", "from_array", "SHGrid.from_array"} =>
       \/ ret.status = "ok" /\ ret.out # ""
       \/ ret.status \in {"ValueError", "TypeError"} /\ ret.out = ""
  /\ ret.op = "from_zeros" /\ lower(ret.args[2]) \in Kinds
     /\ CheckConvention(ret.args[3], ret.args[4]) = "ok"
       => ret.status = "ok" /\ objs[ret.out].kind = lower(ret.args[2])
  /\ ret.op = "SHGrid.from_array" /\ upper(ret.args[2]) \in {"DH", "GLQ"}
     /\ grid_init_check(upper(ret.args[2]), heap[ret.args[1]].shape[1],
                        heap[ret.args[1]].shape[2]) = "ok"
       => /\ ret.status = "ok"
          /\ grids[ret.out].grid = upper(ret.args[2])
          /\ grids[ret.out].kind = heap[ret.args[1]].dtype
C26_CentreKept ==
  [][ret'.op \in {"multitaperpowerspectrum", "multitapercrosspowerspectrum"}
     /\ wins[ret'.self].kind = "cap"
     /\ ret'.args[2] = <<>> /\ ret'.args[3] = <<>>
     /\ wins[ret'.self].clat # <<>> /\ wins[ret'.self].clon # <<>>
     => /\ wins'[ret'.self].clat = wins[ret'.self].clat
        /\ wins'[ret'.self].clon = wins[ret'.self].clon
        /\ wins'[ret'.self].coord_degrees = wins[ret'.self].coord_degrees]_vars
\* C27: in every state of a cap window, either no rotation has occurred (the stored
\* rotated coefficients and nwinrot are both unset) or the coefficients are set with
\* nwinrot <= nwin, their columns of index >= nwinrot are zero, and clat and clon are
\* both set.
C27_CacheShape ==
  \A w \in WinVars :
    wins[w].kind = "cap" =>
      \/ wins[w].coeffs = <<>> /\ wins[w].nwinrot = <<>>
      \/ /\ wins[w].coeffs # <<>> /\ wins[w].nwinrot # <<>>
         /\ wins[w].nwinrot[1] <= wins[w].nwin
         /\ \A ix \in DOMAIN wins[w].coeffs[1].dat :
              ix[2] >= wins[w].nwinrot[1] => wins[w].coeffs[1].dat[ix] = Zero
         /\ wins[w].clat # <<>> /\ wins[w].clon # <<>>
\* C28: the result of an arithmetic operator on an instance, with an instance of the
\* same convention and lmax or with a scalar, has the kind, normalization, csphase and
\* lmax of the left operand, and each of its entries inside the mask is the operator
\* applied to the entries of the operands at that index; two complex instances give a
\* complex one.
C28_OperatorResult ==
  ret.op \in Operators /\ ret.status = "ok" =>
    LET self == objs[ret.self]
        r == objs["r"]
        operand(ix) == IF ret.other # "" THEN heap[objs[ret.other].coeffs].dat[ix]
                       ELSE Real(ret.args[1])
    IN /\ r.kind = self.kind
       /\ r.normalization = self.normalization
       /\ r.csphase = self.csphase
       /\ r.lmax = self.lmax
       /\ \A ix \in self.mask :
            heap[r.coeffs].dat[ix] = ElementOp(ret.op, heap[self.coeffs].dat[ix], operand(ix))
\* C29: the power spectrum does not depend on the normalization or on the phase convention
\* the coefficients are stored in: the instance returned by convert with a target
\* normalization, a target csphase or both (and the kind and lmax of the source) has, at
\* every degree, the power spectrum of the source.
C29_PowerInvariant ==
  Returned("convert") /\ ret.args[3] = <<>> /\ ret.args[4] = <<>> =>
    LET x == spectrum(objs[ret.self], heap, "power", "per_l")
        r == spectrum(objs["r"], heap, "power", "per_l")
    IN /\ r.status = "ok" /\ x.status = "ok"
       /\ \A l \in 0..objs[ret.self].lmax : r.val[l + 1] = x.val[l + 1]
\* convert(normalization='schmidt', csphase=-1) returned an instance whose coefficients of
\* degree 1 differ from those of its 4pi-normalized source, whose power at degree 1 is not 0
C29_Witness ==
  /\ Returned("convert") /\ ret.args[1] = <<"schmidt">> /\ ret.args[2] = <<-1>>
  /\ ret.args[3] = <<>> /\ ret.args[4] = <<>>
  /\ objs[ret.self].normalization = "4pi" /\ objs[ret.self].csphase = 1
  /\ objs[ret.self].lmax = 1
  /\ heap[objs["r"].coeffs].dat[<<0, 1, 1>>] # heap[objs[ret.self].coeffs].dat[<<0, 1, 1>>]
  /\ spectrum(objs[ret.self], heap, "power", "per_l").val[2] \notin {Zero, NaN}
\* C30: for every lmax >= 0 and every lwin >= 0 the matrices that couplingmatrix returns
\* for the three modes satisfy rows(valid) <= rows(same) <= rows(full), and the mode
\* 'valid' returns no rows when lmax < lwin.
C30_RowsOrdered ==
  ret.op = "couplingmatrix" /\ ret.status = "ok" =>
    LET self == wins[ret.self]
        rows(mode) == couplingmatrix(self, ret.args[1], ret.args[2], ret.args[3], mode).shape[1]
    IN /\ rows("valid") <= rows("same")
       /\ rows("same") <= rows("full")
       /\ ret.args[4] = "valid" /\ ret.args[1] < self.lwin => ret.val[1] = 0
=============================================================================
